---- MODULE Spec2Model ----
(***************************************************************************)
(* Verification model of the screenwright SDK agents:                      *)
(*   - generateRecordingPlan (sdk/src/ai/agents/planner.ts), the bounded   *)
(*     tool-calling conversation loop with plan extraction, validation and *)
(*     simulator cleanup;                                                  *)
(*   - generateScript (sdk/src/ai/agents/scriptwriter.ts), the single-shot *)
(*     timing aligner;                                                     *)
(*   - chatCompletion and chatJSON (sdk/src/ai/openrouter.ts);             *)
(*   - the video storage (utils/video-storage.ts), with concurrent         *)
(*     load / modify / save operations on the storage file;                *)
(*   - getModel (sdk/src/ai/config.ts);                                    *)
(*   - generateContentIdeas (sdk/src/utils/content-generator.ts).          *)
(*                                                                         *)
(* Texts are sequences of lexical tokens.  A token stands for a piece of   *)
(* the text that the regular expressions and JSON.parse of the source      *)
(* treat as a unit:                                                        *)
(*   "{" "}" "[" "]"  JSON structure                                       *)
(*   "T"   the member  "title":"..."        (contains the text "title")    *)
(*   "K"   any other scalar member, e.g.  "description":"..."              *)
(*   "RS"  the key  "recordingSteps":   (its value follows)                *)
(*   "SS"  the key  "setupSteps":       (its value follows)                *)
(*   "W"   a word of prose, not JSON                                       *)
(*   "SP"  white space (a blank)                                           *)
(*   "OJ"  the fence opener ```json\n    "OP"  the fence opener ```\n      *)
(*   "CL"  the fence closer \n```                                          *)
(* Tokens are concatenated without separator; commas between members are  *)
(* implied.                                                                *)
(***************************************************************************)
EXTENDS Integers, Sequences, FiniteSets, TLC

VARIABLES
  pc,              \* position of generateRecordingPlan
  iterationCount,  \* planner.ts:191
  messages,        \* planner.ts:111 conversation history (without the system prompt)
  response,        \* planner.ts:211 the latest response of the loop's chatCompletion
  toolIdx,         \* position of the for loop of planner.ts:239 (1-based)
  toolResults,     \* planner.ts:237
  content,         \* planner.ts:329 the text the plan is extracted from
  plan,            \* planner.ts:392
  result,          \* value generateRecordingPlan resolved with
  error,           \* error generateRecordingPlan rejected with
  chatCalls,       \* number of chatCompletion calls made by the while loop (planner.ts:211)
  followUps,       \* number of follow-up chatCompletion calls (planner.ts:344)
  lifecycle,       \* lifecycle calls made on the automation object, in order
  cleanupFailed,   \* the catch of planner.ts:475 was entered
  request,         \* options of the latest chatCompletion call of the planner
  portCall,        \* the latest call executeMCPTool made on the automation object
  jsonResponse,    \* planner.ts:344 the response of the follow-up chatCompletion
  inFlight,        \* number of operations the planner started that have not settled, by kind
  swPc,            \* position of generateScript
  swInput,         \* scriptwriter.ts:50 input.recordingSteps
  swModel,         \* scriptwriter.ts:77 result.timestampedActions as the model returned them
  swOutput,        \* value generateScript resolved with
  swError,         \* message of the error generateScript rejected with
  swErrorName,     \* name of the error generateScript rejected with
  swCaught,        \* scriptwriter.ts:126 the error the catch block caught
  swCalls,         \* number of chatJSON requests made by generateScript
  swWarned,        \* the count warning of scriptwriter.ts:97 was logged
  ccCalls,         \* the chatCompletion calls of an OpenRouterClient, by call
  cjPc,            \* position of chatJSON
  cjContent,       \* openrouter.ts:191 result.content
  cjValue,         \* value chatJSON resolved with
  cjError,         \* error chatJSON rejected with
  vsDisk,          \* the videos.json file of the project
  vsOps,           \* the calls of the video storage functions, by call
  gmPc,            \* position of getModel
  gmEnv,           \* process.env, the model variables
  gmAgent,         \* config.ts:121 the argument of getModel
  gmModel,         \* value getModel resolved with
  ciPc,            \* position of generateContentIdeas
  ciAnalysis,      \* content-generator.ts:49 the result of analyzeProjectStructure
  ciOptions,       \* content-generator.ts:13 options, with maxIdeas and maxCategories
  ciCategories     \* value generateContentIdeas resolved with

plannerVars == <<pc, iterationCount, messages, response, toolIdx, toolResults,
                 content, plan, result, error, chatCalls, followUps, lifecycle,
                 cleanupFailed, request, portCall, inFlight, jsonResponse>>
scriptVars == <<swPc, swInput, swModel, swOutput, swError, swCalls, swWarned,
                swErrorName, swCaught>>
vars == <<pc, iterationCount, messages, response, toolIdx, toolResults,
          content, plan, result, error, chatCalls, followUps, lifecycle,
          cleanupFailed, request, portCall, inFlight, jsonResponse,
          swPc, swInput, swModel, swOutput, swError, swCalls, swWarned,
          swErrorName, swCaught,
          ccCalls, cjPc, cjContent, cjValue, cjError, vsDisk, vsOps,
          gmPc, gmEnv, gmAgent, gmModel,
          ciPc, ciAnalysis, ciOptions, ciCategories>>
clientVars == <<ccCalls>>
jsonVars == <<cjPc, cjContent, cjValue, cjError>>
videoVars == <<vsDisk, vsOps>>
modelVars == <<gmPc, gmEnv, gmAgent, gmModel>>
ideaVars == <<ciPc, ciAnalysis, ciOptions, ciCategories>>
nonPlannerVars == <<scriptVars, clientVars, jsonVars, videoVars, modelVars, ideaVars>>
nonScriptVars == <<plannerVars, clientVars, jsonVars, videoVars, modelVars, ideaVars>>
nonClientVars == <<plannerVars, scriptVars, jsonVars, videoVars, modelVars, ideaVars>>
nonJsonVars == <<plannerVars, scriptVars, clientVars, videoVars, modelVars, ideaVars>>
nonVideoVars == <<plannerVars, scriptVars, clientVars, jsonVars, modelVars,
                  ideaVars>>
nonModelVars == <<plannerVars, scriptVars, clientVars, jsonVars, videoVars,
                  ideaVars>>
nonIdeaVars == <<plannerVars, scriptVars, clientVars, jsonVars, videoVars,
                 modelVars>>

----------------------------------------------------------------------------
(* Bounds of the model                                                     *)

\* iterations in which the model and the automation answer freely; in later
\* iterations the transcript grows by one fixed tool round per iteration, and
\* the model gives a final answer only in the last iteration the loop allows
MaxVariedTurns == 1
\* largest number of input recording steps given to generateScript
MaxSteps == 2
\* largest number of timestampedActions in the scriptwriter model's answer
MaxActions == 2
\* largest time stamp (ms, scaled) in the scriptwriter model's answer
MaxTime == 1
\* number of chatCompletion calls made on one client
MaxChatCalls == 2
\* largest number of tokens in an answer given to chatJSON
MaxTextLen == 5
\* number of calls of the video storage functions on one project
MaxVideoOps == 2
\* the longest batch of ideas given to addContentIdeas
MaxBatch == 2
\* largest number of features analyzeProjectStructure finds
MaxFeatures == 3
\* largest value of the options maxIdeas and maxCategories
MaxOption == 3

----------------------------------------------------------------------------
(* JSON values and JSON.parse over token sequences                         *)

Undefined == [type |-> "undefined"]
EmptyObject == [type |-> "obj", title |-> FALSE,
                recordingSteps |-> Undefined, setupSteps |-> Undefined]
JArray(items) == [type |-> "arr", items |-> items]
ParseFail == [ok |-> FALSE, val |-> Undefined, next |-> 0]

RECURSIVE ParseValue(_, _)
RECURSIVE ParseMembers(_, _, _)
RECURSIVE ParseItems(_, _, _)

\* one JSON value starting at token i
ParseValue(t, i) ==
  IF i > Len(t) THEN ParseFail
  ELSE IF t[i] = "{" THEN ParseMembers(t, i + 1, EmptyObject)
  ELSE IF t[i] = "[" THEN ParseItems(t, i + 1, <<>>)
  ELSE ParseFail

\* the members of an object, up to and including its closing brace; a
\* repeated key keeps the last value, as JSON.parse does
ParseMembers(t, i, obj) ==
  IF i > Len(t) THEN ParseFail
  ELSE IF t[i] = "}" THEN [ok |-> TRUE, val |-> obj, next |-> i + 1]
  ELSE IF t[i] = "T" THEN ParseMembers(t, i + 1, [obj EXCEPT !.title = TRUE])
  ELSE IF t[i] = "K" THEN ParseMembers(t, i + 1, obj)
  ELSE IF t[i] \in {"RS", "SS"} THEN
    LET v == ParseValue(t, i + 1) IN
      IF ~v.ok THEN ParseFail
      ELSE IF t[i] = "RS"
        THEN ParseMembers(t, v.next, [obj EXCEPT !.recordingSteps = v.val])
        ELSE ParseMembers(t, v.next, [obj EXCEPT !.setupSteps = v.val])
  ELSE ParseFail

\* the items of an array, up to and including its closing bracket
ParseItems(t, i, items) ==
  IF i > Len(t) THEN ParseFail
  ELSE IF t[i] = "]" THEN [ok |-> TRUE, val |-> JArray(items), next |-> i + 1]
  ELSE LET v == ParseValue(t, i) IN
         IF ~v.ok THEN ParseFail
         ELSE ParseItems(t, v.next, Append(items, v.val))

IsSpace(tok) == tok = "SP"
NotSpace(tok) == ~IsSpace(tok)

\* JSON.parse: white space is skipped, the whole text must be one value
JSONParse(t) ==
  LET s == SelectSeq(t, NotSpace)
      r == ParseValue(s, 1)
  IN IF r.ok /\ r.next = Len(s) + 1 THEN r ELSE ParseFail

----------------------------------------------------------------------------
(* String helpers                                                          *)

RECURSIVE TrimStart(_)
TrimStart(t) ==
  IF t = <<>> THEN <<>>
  ELSE IF IsSpace(Head(t)) THEN TrimStart(Tail(t)) ELSE t

RECURSIVE TrimEnd(_)
TrimEnd(t) ==
  IF t = <<>> THEN <<>>
  ELSE IF IsSpace(t[Len(t)]) THEN TrimEnd(SubSeq(t, 1, Len(t) - 1)) ELSE t

\* String.prototype.trim
Trim(t) == TrimEnd(TrimStart(t))

\* String.prototype.includes for a one-token needle
Includes(t, tok) == \E i \in 1..Len(t) : t[i] = tok

Positions(t, tok) == {i \in 1..Len(t) : t[i] = tok}
Min(S) == CHOOSE x \in S : \A y \in S : x <= y
Max(S) == CHOOSE x \in S : \A y \in S : x >= y

NoMatch == [found |-> FALSE, text |-> <<>>]
Match(t) == [found |-> TRUE, text |-> t]

\* the sequences over S of length up to n
RECURSIVE SeqsUpTo(_, _)
SeqsUpTo(S, n) ==
  IF n = 0 THEN {<<>>}
  ELSE LET shorter == SeqsUpTo(S, n - 1)
       IN shorter \cup {Append(q, x) : q \in {r \in shorter : Len(r) = n - 1}, x \in S}

----------------------------------------------------------------------------
(* OpenRouterClient.chatCompletion (openrouter.ts:106-172).  Every call    *)
(* has its own AbortController and timer.  The values of a call's pc:      *)
(*   "idle"   not called                                                   *)
(*   "fetch"  awaiting fetch                                   (line 116)  *)
(*   "text"   awaiting response.text() of a non-2xx response   (line 138)  *)
(*   "json"   awaiting response.json()                         (line 143)  *)
(*   "done" resolved, "failed" rejected                                    *)

ChatCallIds == 1..MaxChatCalls
\* response.status of the responses fetch may resolve with
HttpStatuses == {200, 404, 500}
\* Response.ok
Ok(status) == status \in 200..299
\* the body of a non-2xx response
ErrorBodies == {"Not found", ""}
\* the body of a 2xx response: a completion, JSON without choices, not JSON
SuccessBodies == {"completion", "no choices", "not json"}

NoError == [name |-> "-", message |-> <<>>]
\* openrouter.ts:140
ApiError(status, body) ==
  [name |-> "Error", message |-> <<"OpenRouter API error:", status, body>>]
\* openrouter.ts:168
TimeoutError == [name |-> "Error", message |-> <<"OpenRouter request timeout (>120s)">>]
\* what fetch rejects with when its signal is aborted
AbortError == [name |-> "AbortError", message |-> <<"The operation was aborted">>]
\* what fetch rejects with when the connection fails
NetworkError == [name |-> "TypeError", message |-> <<"fetch failed">>]
\* what response.text() and response.json() reject with when the body stream fails
BodyError == [name |-> "TypeError", message |-> <<"terminated">>]
\* response.json() of a body that is not JSON
BodySyntaxError == [name |-> "SyntaxError", message |-> <<"Unexpected token">>]
\* openrouter.ts:144-145 data.choices[0] of a body without choices
ChoiceError == [name |-> "TypeError", message |-> <<"undefined is not an object">>]

IdleCall == [pc |-> "idle", timer |-> "unset", requests |-> 0, status |-> 0,
             body |-> "-", error |-> NoError]

\* a catch block that rethrows whatever it caught
CatchRethrows(e) == e

\* openrouter.ts:164-171 the catch block: what chatCompletion rejects with
\* after catching e
Catch(e) == IF e.name = "AbortError" THEN TimeoutError ELSE e

\* no call was made on the client
ClientIdle == ccCalls = [c \in ChatCallIds |-> IdleCall]

\* openrouter.ts:164-171 the call c rejects after catching e: the timer is
\* cleared unless it fired
Reject(c, e) ==
  ccCalls' = [ccCalls EXCEPT ![c].pc = "failed",
                             ![c].timer = IF @ = "armed" THEN "cleared" ELSE @,
                             ![c].error = Catch(e)]

\* openrouter.ts:106-133 the timer is armed and the one request is sent
CallChatCompletion(c) ==
  /\ ccCalls[c].pc = "idle"
  /\ ccCalls' = [ccCalls EXCEPT ![c].pc = "fetch", ![c].timer = "armed",
                                ![c].requests = @ + 1]
  /\ UNCHANGED nonClientVars

\* a client that sends the request again after a non-2xx response
FetchResolvesRetrying(c) ==
  /\ ccCalls[c].pc = "fetch"
  /\ \E status \in HttpStatuses :
       IF Ok(status)
         THEN \E body \in SuccessBodies :
                ccCalls' = [ccCalls EXCEPT ![c].pc = "json", ![c].timer = "cleared",
                                           ![c].status = status, ![c].body = body]
         ELSE IF ccCalls[c].requests < 2
           THEN ccCalls' = [ccCalls EXCEPT ![c].requests = @ + 1, ![c].status = status]
           ELSE \E body \in ErrorBodies :
                  ccCalls' = [ccCalls EXCEPT ![c].pc = "text", ![c].timer = "cleared",
                                             ![c].status = status, ![c].body = body]
  /\ UNCHANGED nonClientVars

\* openrouter.ts:116-143 fetch resolved with a response: the timer is cleared
\* and the body is read, as text for a non-2xx status and as JSON otherwise
FetchResolves(c) ==
  /\ ccCalls[c].pc = "fetch"
  /\ \E status \in HttpStatuses :
       \E body \in (IF Ok(status) THEN SuccessBodies ELSE ErrorBodies) :
         ccCalls' = [ccCalls EXCEPT ![c].pc = IF Ok(status) THEN "json" ELSE "text",
                                    ![c].timer = "cleared",
                                    ![c].status = status, ![c].body = body]
  /\ UNCHANGED nonClientVars

\* fetch rejected because the connection failed
FetchRejects(c) ==
  /\ ccCalls[c].pc = "fetch"
  /\ Reject(c, NetworkError)
  /\ UNCHANGED nonClientVars

\* openrouter.ts:108 the timer fired while fetch was pending: the controller
\* aborts the request and fetch rejects with the abort error
TimerFires(c) ==
  /\ ccCalls[c].pc = "fetch"
  /\ ccCalls[c].timer = "armed"
  /\ ccCalls' = [ccCalls EXCEPT ![c].pc = "failed", ![c].timer = "fired",
                                ![c].error = Catch(AbortError)]
  /\ UNCHANGED nonClientVars

\* openrouter.ts:138-140 the body of a non-2xx response was read
TextResolves(c) ==
  /\ ccCalls[c].pc = "text"
  /\ Reject(c, ApiError(ccCalls[c].status, ccCalls[c].body))
  /\ UNCHANGED nonClientVars

\* openrouter.ts:143-163 the body of a 2xx response was read
JsonResolves(c) ==
  /\ ccCalls[c].pc = "json"
  /\ CASE ccCalls[c].body = "completion" ->
            ccCalls' = [ccCalls EXCEPT ![c].pc = "done"]
       [] ccCalls[c].body = "no choices" -> Reject(c, ChoiceError)
       [] OTHER -> Reject(c, BodySyntaxError)
  /\ UNCHANGED nonClientVars

\* reading the body failed
BodyRejects(c) ==
  /\ ccCalls[c].pc \in {"text", "json"}
  /\ Reject(c, BodyError)
  /\ UNCHANGED nonClientVars

----------------------------------------------------------------------------
(* OpenRouterClient.chatJSON (openrouter.ts:190-210).  The values of cjPc: *)
(*   "idle"  not called                                                    *)
(*   "chat"  awaiting chatCompletion                           (line 191)  *)
(*   "done" resolved, "failed" rejected                                    *)

\* the tokens of the answers given to chatJSON
ChatJSONAlphabet == {"{", "}", "T", "W", "SP", "OJ", "CL"}
\* result.content of the completion; <<>> is null or the empty string
ChatJSONTexts == SeqsUpTo(ChatJSONAlphabet, MaxTextLen)

\* the tokens that contain three backticks
FenceTokens == {"OJ", "OP", "CL"}

\* a match of a regular expression: match[0] and the capture match[1]
\* (<<>> when it is empty or there is no group)
Groups(whole, capture) == [found |-> TRUE, text |-> whole, capture |-> capture]
NoGroups == [found |-> FALSE, text |-> <<>>, capture |-> <<>>]

\* openrouter.ts:204  /```json\s*([\s\S]*?)\s*```/ : from the first ```json
\* to the first three backticks after it; the capture is what lies between,
\* without the white space around it
chatJSONFence(t) ==
  IF Positions(t, "OJ") = {} THEN NoGroups
  ELSE LET i == Min(Positions(t, "OJ"))
           closers == {j \in (i + 1)..Len(t) : t[j] \in FenceTokens}
       IN IF closers = {} THEN NoGroups
          ELSE Groups(SubSeq(t, i, Min(closers)),
                      Trim(SubSeq(t, i + 1, Min(closers) - 1)))

\* a brace pattern that stops at the first closing brace
chatJSONBracesLazy(t) ==
  IF Positions(t, "{") = {} THEN NoGroups
  ELSE LET i == Min(Positions(t, "{"))
           closers == {j \in Positions(t, "}") : j > i}
       IN IF closers = {} THEN NoGroups
          ELSE Groups(SubSeq(t, i, Min(closers)), <<>>)

\* openrouter.ts:204  /\{[\s\S]*\}/ : greedy, from the first opening brace to
\* the last closing brace of the text
chatJSONBraces(t) ==
  IF Positions(t, "{") = {} THEN NoGroups
  ELSE LET i == Min(Positions(t, "{"))
           closers == {j \in Positions(t, "}") : j > i}
       IN IF closers = {} THEN NoGroups
          ELSE Groups(SubSeq(t, i, Max(closers)), <<>>)

\* openrouter.ts:201-207 the text handed to JSON.parse
jsonContent(text) ==
  LET trimmed == Trim(text)
      jsonMatch == IF chatJSONFence(trimmed).found THEN chatJSONFence(trimmed)
                   ELSE chatJSONBraces(trimmed)
  IN IF jsonMatch.found
       THEN IF jsonMatch.capture # <<>> THEN jsonMatch.capture ELSE jsonMatch.text
       ELSE trimmed

JsonIdle ==
  /\ cjPc = "idle"
  /\ cjContent = <<>>
  /\ cjValue = Undefined
  /\ cjError = "none"

\* openrouter.ts:190-194 chatJSON was called and awaits chatCompletion
JsonInit ==
  /\ cjPc = "chat"
  /\ cjContent = <<>>
  /\ cjValue = Undefined
  /\ cjError = "none"

\* openrouter.ts:191 chatCompletion rejected
ChatJSONRejects ==
  /\ cjPc = "chat"
  /\ cjPc' = "failed"
  /\ \E e \in {"OpenRouter API error", "OpenRouter request timeout (>120s)"} :
       cjError' = e
  /\ UNCHANGED <<cjContent, cjValue>>
  /\ UNCHANGED nonJsonVars

\* openrouter.ts:196-209 chatCompletion resolved
ChatJSONResolves ==
  /\ cjPc = "chat"
  /\ \E text \in ChatJSONTexts :
       /\ cjContent' = text
       /\ IF text = <<>>
            THEN /\ cjPc' = "failed"
                 /\ cjError' = "No content in response"
                 /\ UNCHANGED cjValue
            ELSE LET parsed == JSONParse(jsonContent(text)) IN
                   IF parsed.ok
                     THEN /\ cjPc' = "done"
                          /\ cjValue' = parsed.val
                          /\ UNCHANGED cjError
                     ELSE /\ cjPc' = "failed"
                          /\ cjError' = "JSON parse error"
                          /\ UNCHANGED cjValue
  /\ UNCHANGED nonJsonVars

----------------------------------------------------------------------------
(* Video storage (utils/video-storage.ts).  Every function loads the whole *)
(* storage from videos.json, changes the loaded copy and writes it back.  *)
(* The values of pc of a call:                                             *)
(*   "idle"  not called                                                    *)
(*   "init"  no file was found, awaiting initializeVideoStorage's write    *)
(*   "save"  awaiting saveVideoStorage                                     *)
(*   "done"  returned                                                      *)

VideoOps == 1..MaxVideoOps

\* the keys of Video['stages'] (types-video.ts)
StageKeys == {"idea", "plan", "script", "record", "composite"}

\* the values of the type VideoStage (types-video.ts)
VideoStage == {"idea", "planned", "scripted", "recorded", "composite", "failed"}

Null == [type |-> "null"]

\* loadVideoStorage found no file
NoStorageFile == [exists |-> FALSE, videos |-> <<>>, contentIdeas |-> <<>>]

\* video-storage.ts:46-51 the storage initializeVideoStorage writes
EmptyStorage == [exists |-> TRUE, videos |-> <<>>, contentIdeas |-> <<>>]

\* video-storage.ts:94-111 the video createVideo builds; titles and time
\* stamps are left out
NewVideo(id) ==
  [id |-> id,
   currentStage |-> "idea",
   stages |-> [k \in StageKeys |-> [completed |-> (k = "idea"), data |-> "none"]],
   error |-> "none"]

\* storage.videos.findIndex(v => v.id === videoId), 1-based, 0 when not found
FindIndex(videos, videoId) ==
  LET found == {i \in 1..Len(videos) : videos[i].id = videoId}
  IN IF found = {} THEN 0 ELSE Min(found)

\* what a storage function does between loading and saving:
\* storage the changed copy, ret the value returned, save whether it is saved
Effect(storage, ret, save) == [storage |-> storage, ret |-> ret, save |-> save]

\* video-storage.ts:87-116
createVideo(storage, id) ==
  Effect([storage EXCEPT !.videos = Append(@, NewVideo(id))], NewVideo(id), TRUE)

\* video-storage.ts:121-150
updateVideoStage(storage, videoId, stage, data) ==
  LET i == FindIndex(storage.videos, videoId) IN
    IF i = 0 THEN Effect(storage, Null, FALSE)
    ELSE LET video ==
               [storage.videos[i] EXCEPT
                  !.stages[stage].completed = TRUE,
                  !.stages[stage].data =
                     IF data # "none" /\ stage \in {"plan", "script"} THEN data ELSE @,
                  !.currentStage = stage]
         IN Effect([storage EXCEPT !.videos[i] = video], video, TRUE)

\* video-storage.ts:155-173
setVideoFailed(storage, videoId) ==
  LET i == FindIndex(storage.videos, videoId) IN
    IF i = 0 THEN Effect(storage, Null, FALSE)
    ELSE LET video == [storage.videos[i] EXCEPT !.currentStage = "failed",
                                                !.error = "error"]
         IN Effect([storage EXCEPT !.videos[i] = video], video, TRUE)

\* video-storage.ts:178-189
deleteVideo(storage, videoId) ==
  LET i == FindIndex(storage.videos, videoId) IN
    IF i = 0 THEN Effect(storage, FALSE, FALSE)
    ELSE Effect([storage EXCEPT !.videos =
                   SubSeq(@, 1, i - 1) \o SubSeq(@, i + 1, Len(@))], TRUE, TRUE)

\* a ContentIdea as the storage sees it: of its fields only the title is read
StoredIdea(title) == [title |-> title]
IdeaTitles == {"Idea 1", "Idea 2"}
\* the batches addContentIdeas may be given
Batches == SeqsUpTo({StoredIdea(t) : t \in IdeaTitles}, MaxBatch)

\* video-storage.ts:194-206
addContentIdeas(storage, ideas) ==
  LET existingTitles == {storage.contentIdeas[i].title : i \in 1..Len(storage.contentIdeas)}
      newIdeas == SelectSeq(ideas, LAMBDA i : i.title \notin existingTitles)
  IN Effect([storage EXCEPT !.contentIdeas = @ \o newIdeas], Null, TRUE)

\* a call of a storage function with its arguments
Call(fn, videoId, stage, data) ==
  [fn |-> fn, videoId |-> videoId, stage |-> stage, data |-> data, ideas |-> <<>>]
NoCall == Call("-", 0, "-", "none")

\* the calls that call o may be: createVideo, whose video gets the id o, or
\* a function applied to the id of a video of an earlier call or to an id
\* no video has
Calls(o) ==
  {Call("createVideo", o, "-", "none")}
    \cup {Call("updateVideoStage", id, stage, "none") : id \in 1..o, stage \in StageKeys}
    \cup {Call("updateVideoStage", id, stage, "data") :
            id \in 1..o, stage \in {"plan", "script"}}
    \cup {Call(fn, id, "-", "none") : fn \in {"setVideoFailed", "deleteVideo"}, id \in 1..o}
    \cup {[Call("addContentIdeas", 0, "-", "none") EXCEPT !.ideas = b] : b \in Batches}

Apply(call, storage) ==
  CASE call.fn = "createVideo" -> createVideo(storage, call.videoId)
    [] call.fn = "updateVideoStage" ->
         updateVideoStage(storage, call.videoId, call.stage, call.data)
    [] call.fn = "setVideoFailed" -> setVideoFailed(storage, call.videoId)
    [] call.fn = "addContentIdeas" -> addContentIdeas(storage, call.ideas)
    [] OTHER -> deleteVideo(storage, call.videoId)

IdleOp == [pc |-> "idle", call |-> NoCall, local |-> NoStorageFile, ret |-> Null]

VideoIdle ==
  /\ vsDisk = NoStorageFile
  /\ vsOps = [o \in VideoOps |-> IdleOp]

\* the function went on with the storage it got: it changed its copy and
\* either awaits saveVideoStorage or returned without saving
Proceed(o, call, storage) ==
  LET e == Apply(call, storage) IN
    vsOps' = [vsOps EXCEPT ![o] =
                [pc |-> IF e.save THEN "save" ELSE "done",
                 call |-> call, local |-> e.storage, ret |-> e.ret]]

\* video-storage.ts:57-63 a storage function is called and loadVideoStorage
\* resolved: with the storage of the file, or with null
CallStorage(o) ==
  /\ vsOps[o].pc = "idle"
  /\ \E call \in Calls(o) :
       IF vsDisk.exists
         THEN Proceed(o, call, vsDisk)
         ELSE vsOps' = [vsOps EXCEPT ![o] = [@ EXCEPT !.pc = "init", !.call = call]]
  /\ UNCHANGED vsDisk
  /\ UNCHANGED nonVideoVars

\* video-storage.ts:45-53, 60-62 initializeVideoStorage wrote an empty storage
Initialized(o) ==
  /\ vsOps[o].pc = "init"
  /\ vsDisk' = EmptyStorage
  /\ Proceed(o, vsOps[o].call, EmptyStorage)
  /\ UNCHANGED nonVideoVars

\* video-storage.ts:37-40 saveVideoStorage wrote the changed copy
Saved(o) ==
  /\ vsOps[o].pc = "save"
  /\ vsDisk' = vsOps[o].local
  /\ vsOps' = [vsOps EXCEPT ![o].pc = "done"]
  /\ UNCHANGED nonVideoVars

----------------------------------------------------------------------------
(* getModel (config.ts:32-147)                                             *)

Agents == {"content-creator", "scriptwriter", "planner"}

\* the environment variables getAIConfig and getModel read for the model
EnvVars == {"CONTENT_CREATOR_MODEL", "SCRIPTWRITER_MODEL", "PLANNER_MODEL",
            "OPENROUTER_MODEL"}

\* a variable that is not set; the other values are " " (blanks only) and
\* the name of a model
EnvUnset == "(unset)"
ModelOf == [CONTENT_CREATOR_MODEL |-> "custom-creator-model",
            SCRIPTWRITER_MODEL |-> "custom-script-model",
            PLANNER_MODEL |-> "custom-planner-model",
            OPENROUTER_MODEL |-> "fallback-model"]
EnvValues(var) == {EnvUnset, " ", ModelOf[var]}
Environments ==
  {env \in [EnvVars -> UNION {EnvValues(var) : var \in EnvVars}] :
     \A var \in EnvVars : env[var] \in EnvValues(var)}

\* process.env.X?.trim()
TrimmedEnv(env, var) == IF env[var] = " " THEN "" ELSE env[var]

\* the truthiness of a string or undefined
Truthy(v) == v \notin {EnvUnset, ""}

\* config.ts:32-80 the model preferences of getAIConfig: a key is present
\* when its variable is set to a text that is not blank
getAIConfig(env) ==
  LET keyOf == [CONTENT_CREATOR_MODEL |-> <<"contentCreator", "Model">>,
                SCRIPTWRITER_MODEL |-> <<"scriptwriter", "Model">>,
                PLANNER_MODEL |-> <<"planner", "Model">>]
      present == {var \in DOMAIN keyOf : Truthy(TrimmedEnv(env, var))}
  IN [key \in {keyOf[var] : var \in present} |->
        TrimmedEnv(env, CHOOSE var \in present : keyOf[var] = key)]

\* config.ts:125  `${agent}Model`
agentModelKey(agent) == <<agent, "Model">>

\* config.ts:140-144
defaults ==
  [a \in Agents |-> IF a = "content-creator" THEN "anthropic/claude-sonnet-4.5"
                    ELSE "google/gemini-2.5-flash"]

\* config.ts:121-147
getModel(env, agent) ==
  LET config == getAIConfig(env)
      agentModel == IF agentModelKey(agent) \in DOMAIN config
                      THEN config[agentModelKey(agent)] ELSE EnvUnset
      envModel == TrimmedEnv(env, "OPENROUTER_MODEL")
  IN IF Truthy(agentModel) THEN agentModel
     ELSE IF Truthy(envModel) THEN envModel
     ELSE defaults[agent]

ModelIdle ==
  /\ gmPc = "idle"
  /\ gmEnv = [var \in EnvVars |-> EnvUnset]
  /\ gmAgent = "-"
  /\ gmModel = "-"

\* getModel is called for an agent in some environment
ModelInit ==
  /\ gmPc = "call"
  /\ gmEnv \in Environments
  /\ gmAgent \in Agents
  /\ gmModel = "-"

\* config.ts:121-147 getModel resolves
GetModelReturns ==
  /\ gmPc = "call"
  /\ gmPc' = "done"
  /\ gmModel' = getModel(gmEnv, gmAgent)
  /\ UNCHANGED <<gmEnv, gmAgent>>
  /\ UNCHANGED nonModelVars

----------------------------------------------------------------------------
(* generateContentIdeas (utils/content-generator.ts)                       *)

\* some of the feature patterns of content-generator.ts:76-85: "chat" has a
\* template in createFeatureIdea, "todo" has none
FeatureNames == {"auth", "profile", "settings", "chat", "todo"}

\* content-generator.ts:122-126 features holds every pattern at most once
Analyses ==
  {[features |-> f] : f \in {g \in SeqsUpTo(FeatureNames, MaxFeatures) :
                               \A i, j \in 1..Len(g) : g[i] = g[j] => i = j}}

\* a ContentIdea; ids, descriptions and steps are left out
ContentIdea(title, feature, category) ==
  [title |-> title, feature |-> feature, category |-> category]

ContentCategory(name, ideas) == [name |-> name, content |-> ideas]

\* array.slice(0, n)
Slice(s, n) == SubSeq(s, 1, IF n < Len(s) THEN (IF n < 0 THEN 0 ELSE n) ELSE Len(s))

\* content-generator.ts:305, 374  `Using ${featureName}`
UsingTitle(feature) ==
  CASE feature = "auth" -> "Using Auth"
    [] feature = "settings" -> "Using Settings"
    [] feature = "todo" -> "Using Todo"
    [] OTHER -> "Using Feature"

\* content-generator.ts:300-393
createFeatureIdea(feature) ==
  CASE feature = "chat" -> ContentIdea("Sending Messages", feature, "Core Features")
    [] feature = "profile" -> ContentIdea("Viewing Profiles", feature, "Core Features")
    [] OTHER -> ContentIdea(UsingTitle(feature), feature, "Core Features")

\* content-generator.ts:155-295
generateCategoriesForProject(analysis, maxIdeas, maxCategories) ==
  LET has(f) == \E i \in 1..Len(analysis.features) : analysis.features[i] = f
      gettingStarted ==
        ContentCategory("Getting Started",
          <<ContentIdea("Getting Started with app", "onboarding", "Getting Started")>>
            \o (IF has("auth") \/ has("login")
                  THEN <<ContentIdea("Creating Your Account", "authentication",
                                     "Getting Started")>>
                  ELSE <<>>))
      topFeatures == Slice(analysis.features, 4)
      \* the loop of lines 221-231 stops when ideaCount reaches maxIdeas
      room == maxIdeas - Len(gettingStarted.content)
      taken == Slice(topFeatures, room)
      coreFeatures ==
        ContentCategory("Core Features",
                        [i \in 1..Len(taken) |-> createFeatureIdea(taken[i])])
      settings ==
        ContentCategory("Settings & Customization",
          (IF has("profile")
             THEN <<ContentIdea("Managing Your Profile", "profile",
                                "Settings & Customization")>>
             ELSE <<>>)
            \o (IF has("settings")
                  THEN <<ContentIdea("Configuring App Settings", "settings",
                                     "Settings & Customization")>>
                  ELSE <<>>))
      categories ==
        <<gettingStarted>>
          \o (IF Len(analysis.features) > 0 /\ Len(coreFeatures.content) > 0
                THEN <<coreFeatures>> ELSE <<>>)
          \o (IF (has("settings") \/ has("profile")) /\ Len(settings.content) > 0
                THEN <<settings>> ELSE <<>>)
  IN Slice(categories, maxCategories)

IdeasIdle ==
  /\ ciPc = "idle"
  /\ ciAnalysis = [features |-> <<>>]
  /\ ciOptions = [maxIdeas |-> 0, maxCategories |-> 0]
  /\ ciCategories = <<>>

\* generateContentIdeas is called with both options given, the project was
\* analysed
IdeasInit ==
  /\ ciPc = "analysed"
  /\ ciAnalysis \in Analyses
  /\ ciOptions \in [maxIdeas : 1..MaxOption, maxCategories : 1..MaxOption]
  /\ ciCategories = <<>>

\* content-generator.ts:53-63 the categories are generated and returned
GenerateReturns ==
  /\ ciPc = "analysed"
  /\ ciPc' = "done"
  /\ ciCategories' = generateCategoriesForProject(ciAnalysis, ciOptions.maxIdeas,
                                                  ciOptions.maxCategories)
  /\ UNCHANGED <<ciAnalysis, ciOptions>>
  /\ UNCHANGED nonIdeaVars

----------------------------------------------------------------------------
(* Plan extraction and validation (planner.ts:329-401)                     *)

\* a heuristic that only looks at the first character
looksLikeJsonBraceOnly(t) ==
  /\ Trim(t) # <<>>
  /\ Head(Trim(t)) = "{"

\* planner.ts:332  content.trim().startsWith('{') && content.includes('"title"')
looksLikeJson(t) ==
  /\ Trim(t) # <<>>
  /\ Head(Trim(t)) = "{"
  /\ Includes(t, "T")

\* one of the two regular expressions of planner.ts:362: the leftmost opener
\* that is followed by at least one token and then a closer; the capture is
\* lazy, so it ends at the first such closer
FenceMatch(t, opener) ==
  LET closers(i) == {j \in Positions(t, "CL") : j >= i + 2}
      starts == {i \in Positions(t, opener) : closers(i) # {}}
  IN IF starts = {} THEN NoMatch
     ELSE LET i == Min(starts)
              j == Min(closers(i))
          IN Match(SubSeq(t, i + 1, j - 1))

\* planner.ts:362
markdownMatch(t) ==
  IF FenceMatch(t, "OJ").found THEN FenceMatch(t, "OJ") ELSE FenceMatch(t, "OP")

\* the pattern with a lazy tail: the span ends at the first closing brace
\* that follows recordingSteps
jsonObjectMatchLazy(t) ==
  LET ends(i) == {l \in Positions(t, "}") :
                    \E j \in Positions(t, "T") : \E k \in Positions(t, "RS") :
                      i < j /\ j < k /\ k < l}
      starts == {i \in Positions(t, "{") : ends(i) # {}}
  IN IF starts = {} THEN NoMatch
     ELSE Match(SubSeq(t, Min(starts), Min(ends(Min(starts)))))

\* planner.ts:370  /\{[\s\S]*"title"[\s\S]*"recordingSteps"[\s\S]*\}/ : from the
\* first brace that has a title, then recordingSteps, then a closing brace
\* after it, greedily to the last closing brace of the text
jsonObjectMatch(t) ==
  LET chain(i) == \E j \in Positions(t, "T") : \E k \in Positions(t, "RS") :
                    \E l \in Positions(t, "}") : i < j /\ j < k /\ k < l
      starts == {i \in Positions(t, "{") : chain(i)}
  IN IF starts = {} THEN NoMatch
     ELSE Match(SubSeq(t, Min(starts), Max(Positions(t, "}"))))

\* an extractor that goes on to the next strategy when a candidate does not
\* parse
jsonStrFirstParseable(t) ==
  IF markdownMatch(t).found /\ JSONParse(markdownMatch(t).text).ok
    THEN markdownMatch(t).text
  ELSE IF jsonObjectMatch(t).found /\ JSONParse(jsonObjectMatch(t).text).ok
    THEN jsonObjectMatch(t).text
  ELSE Trim(t)

\* planner.ts:359-381 the candidate handed to JSON.parse
jsonStr(t) ==
  IF markdownMatch(t).found THEN markdownMatch(t).text
  ELSE IF jsonObjectMatch(t).found THEN jsonObjectMatch(t).text
  ELSE Trim(t)

HasLength(v) == v.type = "arr"
LengthOf(v) == Len(v.items)

\* PlanCheck without the validation gate of planner.ts:395
PlanCheckNoGate(t) ==
  LET r == JSONParse(jsonStr(t))
      p == r.val
  IN IF ~r.ok THEN "parse"
     ELSE IF p.type # "obj" THEN "type"
     ELSE IF p.recordingSteps.type = "undefined" THEN "type"
     ELSE IF p.setupSteps.type = "undefined" THEN "type"
     ELSE IF ~HasLength(p.recordingSteps) THEN "type"
     ELSE "ok"

\* planner.ts:392-459 what happens to the parsed value before the cleanup:
\* "parse"  JSON.parse threw, "type" a TypeError was thrown (a property of
\* undefined was read, or forEach is not a function), "empty" the validation
\* gate of planner.ts:395 threw, "ok" the synchronous part ran through
PlanCheck(t) ==
  LET r == JSONParse(jsonStr(t))
      p == r.val
  IN IF ~r.ok THEN "parse"
     ELSE IF p.type # "obj" THEN "type"
     ELSE IF p.recordingSteps.type = "undefined" THEN "type"
     ELSE IF HasLength(p.recordingSteps) /\ LengthOf(p.recordingSteps) = 0 THEN "empty"
     ELSE IF p.setupSteps.type = "undefined" THEN "type"
     ELSE IF ~HasLength(p.recordingSteps) THEN "type"
     ELSE "ok"

----------------------------------------------------------------------------
(* Messages, tool calls and tool dispatch (planner.ts:227-322, 496-527)    *)

\* a ChatMessage; its content is kept structured: kind tells how the content
\* string was built, tool and call name the tool call it answers (call is the
\* id of the ToolCall, kept to relate results to calls), text is the
\* assistant's text, detail the error message of a failed tool
Message(role, kind, tool, call, text, detail) ==
  [role |-> role, kind |-> kind, tool |-> tool, call |-> call,
   text |-> text, detail |-> detail]

\* planner.ts:111-113
UserPromptMessage == Message("user", "prompt", "-", 0, <<>>, "-")

\* planner.ts:228-231  content: response.content || ''
assistantMessage(resp) == Message("assistant", "text", "-", 0, resp.content, "-")

\* planner.ts:338-341
JsonRequestMessage == Message("user", "jsonRequest", "-", 0, <<>>, "-")

\* planner.ts:214 the system prompt, sent first with every request
SystemMessage == Message("system", "systemPrompt", "-", 0, <<>>, "-")

\* planner.ts:116-189 the declared tools
DeclaredTools == {"mobile_take_screenshot", "mobile_list_elements_on_screen",
                  "mobile_click_on_screen_at_coordinates",
                  "mobile_swipe_on_screen", "mobile_type_keys"}

\* no chatCompletion call was made yet
NoRequest == [messages |-> <<>>, tools |-> {}, tool_choice |-> "-",
              response_format |-> "-"]

\* a loop request that sends the latest message only
LoopRequestLastOnly(msgs) ==
  [messages |-> <<SystemMessage, msgs[Len(msgs)]>>, tools |-> DeclaredTools,
   tool_choice |-> "auto", response_format |-> "-"]

\* planner.ts:211-219 the options of the loop's chatCompletion call
LoopRequest(msgs) ==
  [messages |-> <<SystemMessage>> \o msgs, tools |-> DeclaredTools,
   tool_choice |-> "auto", response_format |-> "-"]

\* planner.ts:344-351 the options of the follow-up chatCompletion call
FollowUpRequest(msgs) ==
  [messages |-> <<SystemMessage>> \o msgs, tools |-> {}, tool_choice |-> "-",
   response_format |-> "json_object"]

\* a ToolCall {id, function: {name, arguments}}; arguments is "" (absent),
\* "{}" (an empty object), "valid" (an object with the required arguments)
\* or "malformed" (not JSON)
ToolCall(id, name, arguments) == [id |-> id, name |-> name, arguments |-> arguments]

\* arguments handed on as received, without the try/catch around JSON.parse
ParseToolArgsRaw(toolArgsStr) ==
  IF toolArgsStr = "" THEN "{}" ELSE toolArgsStr

\* planner.ts:245-253 the parsed arguments: "{}" or "valid"
ParseToolArgs(toolArgsStr) ==
  IF toolArgsStr = "" THEN "{}"
  ELSE IF toolArgsStr = "malformed" THEN "{}"
  ELSE toolArgsStr

\* executeMCPTool whose switch has no throwing default: an unknown name falls
\* through to the last case
executeMCPToolFallThrough(toolName, toolArgs) ==
  CASE toolName = "mobile_take_screenshot" ->
         [kind |-> "call", method |-> "takeScreenshot"]
    [] toolName = "mobile_list_elements_on_screen" ->
         [kind |-> "call", method |-> "listElements"]
    [] toolName = "mobile_click_on_screen_at_coordinates" ->
         [kind |-> "call", method |-> "tapAt"]
    [] toolName = "mobile_swipe_on_screen" ->
         IF toolArgs = "{}"
           THEN [kind |-> "throw", message |-> "TypeError"]
           ELSE [kind |-> "call", method |-> "swipe"]
    [] OTHER -> [kind |-> "call", method |-> "typeText"]

\* planner.ts:496-527 what executeMCPTool does before it awaits anything: it
\* calls a method of the automation object, or throws
executeMCPTool(toolName, toolArgs) ==
  CASE toolName = "mobile_take_screenshot" ->
         [kind |-> "call", method |-> "takeScreenshot"]
    [] toolName = "mobile_list_elements_on_screen" ->
         [kind |-> "call", method |-> "listElements"]
    [] toolName = "mobile_click_on_screen_at_coordinates" ->
         [kind |-> "call", method |-> "tapAt"]
    [] toolName = "mobile_swipe_on_screen" ->
         IF toolArgs = "{}"
           THEN [kind |-> "throw", message |-> "TypeError"]  \* direction.toUpperCase()
           ELSE [kind |-> "call", method |-> "swipe"]
    [] toolName = "mobile_type_keys" ->
         [kind |-> "call", method |-> "typeText"]
    [] OTHER -> [kind |-> "throw", message |-> "Unknown tool"]

\* no automation call was made yet
NoPortCall == [method |-> "-", args |-> "-"]

\* planner.ts:257-258, 496-527 the automation call made for a tool call
AutomationCall(toolCall) ==
  LET toolArgs == ParseToolArgs(toolCall.arguments)
  IN [method |-> executeMCPTool(toolCall.name, toolArgs).method, args |-> toolArgs]

\* planner.ts:309-317 the message of a failed tool execution
ErrorMessages(toolCall, message) ==
  <<Message("tool", "error", toolCall.name, toolCall.id, <<>>, message)>>

\* a screenshot answered like any other tool: one tool message holding the
\* stringified result, base64 data included
ResultMessagesStringified(toolCall) ==
  IF toolCall.name = "mobile_take_screenshot"
    THEN <<Message("tool", "result", toolCall.name, toolCall.id, <<>>, "base64")>>
    ELSE <<Message("tool", "result", toolCall.name, toolCall.id, <<>>, "-")>>

\* planner.ts:274-308 the messages of a successful tool execution; detail
\* tells what the message carries of a screenshot: "format,width,height" the
\* summary fields, "base64" the image data
ResultMessages(toolCall) ==
  IF toolCall.name = "mobile_take_screenshot"
    THEN <<Message("tool", "screenshotSummary", toolCall.name, toolCall.id, <<>>,
                   "format,width,height"),
           Message("user", "image", toolCall.name, toolCall.id, <<>>, "base64")>>
    ELSE <<Message("tool", "result", toolCall.name, toolCall.id, <<>>, "-")>>

\* toolResults.unshift(...) instead of push
PushResultsFront(results, new) == new \o results

\* toolResults.push(...)
PushResults(results, new) == results \o new

\* a history that keeps the first prompt and the latest turn only
PushTurnTruncating(msgs, resp, results) ==
  <<msgs[1]>> \o <<assistantMessage(resp)>> \o results

\* planner.ts:322  messages.push(assistantMessage, ...toolResults)
PushTurn(msgs, resp, results) == msgs \o <<assistantMessage(resp)>> \o results

\* a for loop that leaves a tool call that throws before any automation call
\* without an answer
RECURSIVE DispatchSkipping(_, _, _)
DispatchSkipping(calls, idx, results) ==
  IF idx > Len(calls) THEN [idx |-> idx, results |-> results]
  ELSE LET e == executeMCPTool(calls[idx].name, ParseToolArgs(calls[idx].arguments))
       IN IF e.kind = "throw"
            THEN DispatchSkipping(calls, idx + 1, results)
            ELSE [idx |-> idx, results |-> results]

\* planner.ts:239-318 the for loop from tool call idx on, up to its next
\* suspension: tool calls that throw before any automation method is called
\* are answered at once; the loop stops at the first call that awaits the
\* automation object, or at the end of the list
RECURSIVE Dispatch(_, _, _)
Dispatch(calls, idx, results) ==
  IF idx > Len(calls) THEN [idx |-> idx, results |-> results]
  ELSE LET e == executeMCPTool(calls[idx].name, ParseToolArgs(calls[idx].arguments))
       IN IF e.kind = "throw"
            THEN Dispatch(calls, idx + 1,
                          PushResults(results, ErrorMessages(calls[idx], e.message)))
            ELSE [idx |-> idx, results |-> results]

----------------------------------------------------------------------------
(* What the model and the automation object may answer                     *)

\* planner.ts:192
maxIterations == 100

NoResponse == [content |-> <<>>, toolCalls |-> <<>>]
NoPlan == Undefined
\* generateScript has not resolved
NoScript == [returned |-> FALSE, timestampedActions |-> <<>>]

ValidPlanText == <<"{", "T", "K", "SS", "[", "]", "RS", "[", "{", "K", "}", "]", "}">>
EmptyPlanText == <<"{", "T", "K", "SS", "[", "]", "RS", "[", "]", "}">>

\* final answers
FinalTexts ==
  { ValidPlanText,
    EmptyPlanText,
    <<"W", "W">>,                                          \* prose only
    <<"W", "OJ">> \o ValidPlanText \o <<"CL">>,            \* fenced plan after prose
    <<"SP", "{", "T", "W", "OJ">> \o EmptyPlanText \o <<"CL", "}">>,
    <<"{", "T", "}">>,                                     \* no recordingSteps
    <<"{", "T", "RS", "[", "{", "K", "}", "]", "}">>,      \* no setupSteps
    <<"{", "T", "RS", "{", "}", "SS", "[", "]", "}">>,     \* recordingSteps not a list
    <<"{", "T", "RS", "[">>,                               \* truncated
    <<"{", "K", "RS", "[", "]", "}">>,                     \* empty plan without title
    <<"OJ">> \o ValidPlanText \o <<"CL">>,                 \* fenced plan
    ValidPlanText \o <<"OJ", "W", "CL">> }                 \* plan, then a fenced remark

\* answers to the follow-up request; <<>> is an absent or empty content
FollowUpTexts(it) ==
  IF it <= MaxVariedTurns
    THEN { ValidPlanText, EmptyPlanText, <<>>, <<"W">>,
           <<"OJ">> \o ValidPlanText \o <<"CL">>,
           <<"OP">> \o EmptyPlanText \o <<"CL">>,
           <<"OJ", "W", "CL">> \o ValidPlanText,            \* fenced remark, then plan
           <<"[">> \o ValidPlanText \o <<"]">>,             \* plan wrapped in a list
           <<"[", "]">> }
    ELSE { ValidPlanText, EmptyPlanText }

Screenshot == ToolCall(0, "mobile_take_screenshot", "{}")
ListElements == ToolCall(0, "mobile_list_elements_on_screen", "")
Tap == ToolCall(0, "mobile_click_on_screen_at_coordinates", "valid")
SwipeNoArgs == ToolCall(0, "mobile_swipe_on_screen", "{}")
TypeMalformed == ToolCall(0, "mobile_type_keys", "malformed")
Bogus == ToolCall(0, "mobile_launch_app", "valid")

\* the tool calls of one assistant turn, with ids 1, 2, ... in emitted order
WithIds(calls) == [i \in 1..Len(calls) |-> [calls[i] EXCEPT !.id = i]]

ToolTurns ==
  { WithIds(<<Screenshot>>),
    WithIds(<<Screenshot, ListElements, Tap>>),
    WithIds(<<Tap, Bogus, Screenshot>>),
    WithIds(<<Bogus>>),
    WithIds(<<SwipeNoArgs, TypeMalformed>>) }

\* the one tool round of the iterations after the varied ones
FixedToolTurn == WithIds(<<ListElements>>)

\* responses to the follow-up request: text only, an answer that carries a
\* tool call besides its text, and one that carries nothing but a tool call
FollowUpResponses(it) ==
  {[content |-> t, toolCalls |-> <<>>] : t \in FollowUpTexts(it)}
    \cup (IF it <= MaxVariedTurns
            THEN {[content |-> t, toolCalls |-> WithIds(<<Tap>>)] :
                    t \in {ValidPlanText, <<>>}}
            ELSE {})

\* responses carrying tool calls (some with text as well)
ToolResponses(it) ==
  IF it <= MaxVariedTurns
    THEN {[content |-> <<>>, toolCalls |-> tc] : tc \in ToolTurns}
         \cup {[content |-> ValidPlanText, toolCalls |-> WithIds(<<ListElements>>)]}
    ELSE {[content |-> <<>>, toolCalls |-> FixedToolTurn]}

\* responses carrying text only
TextResponses(it) ==
  IF it <= MaxVariedTurns
    THEN {[content |-> t, toolCalls |-> <<>>] : t \in FinalTexts}
  ELSE IF it = maxIterations
    THEN {[content |-> t, toolCalls |-> <<>>] :
            t \in {ValidPlanText, EmptyPlanText, <<"W", "W">>}}
  ELSE {}

\* whether the automation object may fail in this iteration
PortMayThrow(it) == it <= MaxVariedTurns

TransportErrors == {"OpenRouter API error", "OpenRouter request timeout (>120s)"}

----------------------------------------------------------------------------
(* generateRecordingPlan (planner.ts:91-491).  The values of pc are its    *)
(* suspension points:                                                      *)
(*   "config"    awaiting getOpenRouterApiKey / getModel      (line 195)   *)
(*   "chat"      awaiting the chatCompletion of the loop      (line 211)   *)
(*   "port"      awaiting executeMCPTool's automation call    (line 258)   *)
(*   "followup"  awaiting the follow-up chatCompletion        (line 344)   *)
(*   "terminate" awaiting automation.terminateAllApps         (line 466)   *)
(*   "press"     awaiting automation.pressButton              (line 469)   *)
(*   "settle"    awaiting the one second timer                (line 473)   *)
(*   "done" resolved, "failed" rejected                                    *)

\* the operations in flight: "config" the reads of getOpenRouterApiKey and
\* getModel, "chat" chatCompletion calls, "port" calls on the automation
\* object, "timer" the settle timer
NoneInFlight == [config |-> 0, chat |-> 0, port |-> 0, timer |-> 0]
\* an operation is started / the awaited operation settled
Start(ops, kind) == [ops EXCEPT ![kind] = @ + 1]
Settle(ops, kind) == [ops EXCEPT ![kind] = @ - 1]

\* a dispatch that starts all the remaining tool calls at once
StartToolAll(ops, calls, idx) == [ops EXCEPT !.port = @ + (Len(calls) - idx + 1)]

\* planner.ts:239, 258 the for loop awaits executeMCPTool for tool call idx
\* before it turns to the next one: one automation call is started
StartTool(ops, calls, idx) == Start(ops, "port")

PlannerInit ==
  /\ inFlight = Start(Start(NoneInFlight, "config"), "config")  \* planner.ts:195 Promise.all
  /\ pc = "config"
  /\ iterationCount = 0
  /\ messages = <<UserPromptMessage>>
  /\ response = NoResponse
  /\ toolIdx = 0
  /\ toolResults = <<>>
  /\ content = <<>>
  /\ plan = NoPlan
  /\ result = NoPlan
  /\ error = "none"
  /\ chatCalls = 0
  /\ followUps = 0
  /\ lifecycle = <<>>
  /\ cleanupFailed = FALSE
  /\ request = NoRequest
  /\ portCall = NoPortCall
  /\ jsonResponse = NoResponse

\* a catch that swallows the error and lets the function return undefined
ThrowReturnsNothing(message) ==
  /\ pc' = "done"
  /\ error' = error

\* planner.ts:487-490 the catch rethrows the error
Throw(message) ==
  /\ pc' = "failed"
  /\ error' = message

\* an off-by-one loop condition
LoopContinuesInclusive(count) == count <= maxIterations

\* planner.ts:201 the loop condition
LoopContinues(count) == count < maxIterations

\* planner.ts:201-219 the head of the while loop: the next chatCompletion
\* call, or the throw of line 486
NextIteration(msgs, ops) ==
  IF LoopContinues(iterationCount)
    THEN /\ iterationCount' = iterationCount + 1
         /\ chatCalls' = chatCalls + 1
         /\ request' = LoopRequest(msgs)
         /\ inFlight' = Start(ops, "chat")
         /\ pc' = "chat"
         /\ error' = error
    ELSE /\ Throw("Max iterations reached without generating plan")
         /\ inFlight' = ops
         /\ UNCHANGED <<iterationCount, chatCalls, request>>

\* planner.ts:239-322 the for loop, continued from tool call idx with the
\* results so far, up to the next suspension point
ContinueTools(idx, results, ops) ==
  LET d == Dispatch(response.toolCalls, idx, results) IN
    IF d.idx <= Len(response.toolCalls)
      THEN /\ pc' = "port"
           /\ toolIdx' = d.idx
           /\ toolResults' = d.results
           /\ portCall' = AutomationCall(response.toolCalls[d.idx])
           /\ inFlight' = StartTool(ops, response.toolCalls, d.idx)
           /\ UNCHANGED <<iterationCount, chatCalls, messages, response, error,
                          request>>
      ELSE /\ messages' = PushTurn(messages, response, d.results)
           /\ toolIdx' = 0
           /\ toolResults' = <<>>
           /\ response' = response
           /\ portCall' = portCall
           /\ NextIteration(PushTurn(messages, response, d.results), ops)

\* a cleanup that only presses home
StartCleanupPressOnly(p) ==
  /\ plan' = p
  /\ lifecycle' = Append(lifecycle, "pressButton(home)")
  /\ pc' = "press"
  /\ UNCHANGED <<result, error>>

\* planner.ts:464-469 the validated plan is kept and terminateAllApps is called
StartCleanup(p) ==
  /\ plan' = p
  /\ lifecycle' = Append(lifecycle, "terminateAllApps")
  /\ pc' = "terminate"
  /\ UNCHANGED <<result, error>>

\* an extraction that resets the simulator before the plan is parsed and
\* validated
ExtractPlanCleanupFirst(text) ==
  /\ content' = text
  /\ lifecycle' = Append(lifecycle, "terminateAllApps")
  /\ LET check == PlanCheck(text) IN
       CASE check = "parse" -> Throw("JSON parse error") /\ UNCHANGED <<plan, result>>
         [] check = "type" -> Throw("TypeError") /\ UNCHANGED <<plan, result>>
         [] check = "empty" ->
              /\ Throw("Plan validation failed: recordingSteps is empty")
              /\ UNCHANGED <<plan, result>>
         [] OTHER -> /\ plan' = JSONParse(jsonStr(text)).val
                     /\ pc' = "terminate"
                     /\ UNCHANGED <<result, error>>
  /\ inFlight' = IF PlanCheck(text) \in {"parse", "type", "empty"}
                   THEN Settle(inFlight, "chat")
                   ELSE Start(Settle(inFlight, "chat"), "port")

\* planner.ts:358-469 extraction, validation and the start of the cleanup
ExtractPlan(text) ==
  /\ content' = text
  /\ LET check == PlanCheck(text) IN
       CASE check = "parse" -> Throw("JSON parse error") /\ UNCHANGED <<plan, result, lifecycle>>
         [] check = "type" -> Throw("TypeError") /\ UNCHANGED <<plan, result, lifecycle>>
         [] check = "empty" ->
              /\ Throw("Plan validation failed: recordingSteps is empty")
              /\ UNCHANGED <<plan, result, lifecycle>>
         [] OTHER -> StartCleanup(JSONParse(jsonStr(text)).val)
  /\ inFlight' = IF PlanCheck(text) \in {"parse", "type", "empty"}
                   THEN Settle(inFlight, "chat")
                   ELSE Start(Settle(inFlight, "chat"), "port")

\* planner.ts:480
ReturnPlan ==
  /\ pc' = "done"
  /\ result' = plan

\* planner.ts:195-199 the API key and the model are resolved, the loop starts
Configure ==
  /\ pc = "config"
  /\ NextIteration(messages, Settle(Settle(inFlight, "config"), "config"))
  /\ UNCHANGED <<messages, response, toolIdx, toolResults, content, plan,
                 result, followUps, jsonResponse, lifecycle, cleanupFailed, portCall>>
  /\ UNCHANGED nonPlannerVars

\* config.ts:85-98 no API key is configured
ConfigureFails ==
  /\ pc = "config"
  /\ Throw("OpenRouter API key not found")
  /\ \E pending \in {0, 1} :   \* Promise.all rejects whether or not getModel settled
       inFlight' = [inFlight EXCEPT !.config = pending]
  /\ UNCHANGED <<iterationCount, messages, response, toolIdx, toolResults,
                 content, plan, result, chatCalls, followUps, jsonResponse, lifecycle,
                 cleanupFailed>>
  /\ UNCHANGED <<request, portCall>>
  /\ UNCHANGED nonPlannerVars

\* a loop that answers a rejected chatCompletion by sending the request again
ChatFailsRetrying ==
  /\ pc = "chat"
  /\ chatCalls < maxIterations
  /\ chatCalls' = chatCalls + 1
  /\ UNCHANGED <<pc, iterationCount, messages, response, toolIdx, toolResults,
                 content, plan, result, error, followUps, jsonResponse, lifecycle,
                 cleanupFailed, request, portCall, inFlight>>
  /\ UNCHANGED nonPlannerVars

\* openrouter.ts:137-141, 164-171 the chatCompletion of the loop rejects
ChatFails ==
  /\ pc = "chat"
  /\ \E e \in TransportErrors : Throw(e)
  /\ inFlight' = Settle(inFlight, "chat")
  /\ UNCHANGED <<iterationCount, messages, response, toolIdx, toolResults,
                 content, plan, result, chatCalls, followUps, jsonResponse, lifecycle,
                 cleanupFailed>>
  /\ UNCHANGED <<request, portCall>>
  /\ UNCHANGED nonPlannerVars

\* a loop that looks at the text first: a response carrying text is taken as
\* the final answer even when it carries tool calls
ChatReturnsToolCallsTextFirst ==
  /\ pc = "chat"
  /\ \E resp \in ToolResponses(iterationCount) :
       LET d == Dispatch(resp.toolCalls, 1, <<>>) IN
         IF resp.content # <<>>
           THEN /\ response' = resp
                /\ ExtractPlan(resp.content)
                /\ UNCHANGED <<iterationCount, chatCalls, messages, request,
                               toolIdx, toolResults, portCall>>
         ELSE IF d.idx <= Len(resp.toolCalls)
           THEN /\ response' = resp
                /\ pc' = "port"
                /\ toolIdx' = d.idx
                /\ toolResults' = d.results
                /\ portCall' = AutomationCall(resp.toolCalls[d.idx])
                /\ inFlight' = StartTool(Settle(inFlight, "chat"), resp.toolCalls, d.idx)
                /\ UNCHANGED <<iterationCount, chatCalls, messages, error, request>>
                /\ UNCHANGED <<content, plan, result, lifecycle>>
           ELSE /\ messages' = PushTurn(messages, resp, d.results)
                /\ response' = resp
                /\ UNCHANGED <<toolIdx, toolResults, portCall>>
                /\ NextIteration(PushTurn(messages, resp, d.results),
                                 Settle(inFlight, "chat"))
                /\ UNCHANGED <<content, plan, result, lifecycle>>
  /\ UNCHANGED <<followUps, jsonResponse, cleanupFailed>>
  /\ UNCHANGED nonPlannerVars

\* planner.ts:234-322 the response carries tool calls
ChatReturnsToolCalls ==
  /\ pc = "chat"
  /\ \E resp \in ToolResponses(iterationCount) :
       LET d == Dispatch(resp.toolCalls, 1, <<>>) IN
         IF d.idx <= Len(resp.toolCalls)
           THEN /\ response' = resp
                /\ pc' = "port"
                /\ toolIdx' = d.idx
                /\ toolResults' = d.results
                /\ portCall' = AutomationCall(resp.toolCalls[d.idx])
                /\ inFlight' = StartTool(Settle(inFlight, "chat"), resp.toolCalls, d.idx)
                /\ UNCHANGED <<iterationCount, chatCalls, messages, error, request>>
           ELSE /\ messages' = PushTurn(messages, resp, d.results)
                /\ response' = resp
                /\ UNCHANGED <<toolIdx, toolResults, portCall>>
                /\ NextIteration(PushTurn(messages, resp, d.results),
                                 Settle(inFlight, "chat"))
  /\ UNCHANGED <<content, plan, result, followUps, jsonResponse, lifecycle, cleanupFailed>>
  /\ UNCHANGED nonPlannerVars

\* planner.ts:323-469 the response carries text and no tool call
ChatReturnsText ==
  /\ pc = "chat"
  /\ \E resp \in TextResponses(iterationCount) :
       /\ response' = resp
       /\ IF looksLikeJson(resp.content)
            THEN /\ ExtractPlan(resp.content)
                 /\ UNCHANGED <<messages, followUps, jsonResponse, request>>
            ELSE /\ messages' = messages \o <<assistantMessage(resp), JsonRequestMessage>>
                 /\ followUps' = followUps + 1
                 /\ jsonResponse' = jsonResponse
                 /\ request' = FollowUpRequest(messages \o <<assistantMessage(resp),
                                                            JsonRequestMessage>>)
                 /\ inFlight' = Start(Settle(inFlight, "chat"), "chat")
                 /\ pc' = "followup"
                 /\ UNCHANGED <<content, plan, result, error, lifecycle>>
  /\ UNCHANGED <<iterationCount, toolIdx, toolResults, chatCalls, cleanupFailed,
                 portCall>>
  /\ UNCHANGED nonPlannerVars

\* an empty response that is skipped: the loop asks the model again
ChatReturnsNothingRetrying ==
  /\ pc = "chat"
  /\ response' = NoResponse
  /\ NextIteration(messages, Settle(inFlight, "chat"))
  /\ UNCHANGED <<messages, toolIdx, toolResults, content, plan, result,
                 followUps, jsonResponse, lifecycle, cleanupFailed, portCall>>
  /\ UNCHANGED nonPlannerVars

\* planner.ts:481-483 neither tool calls nor content
ChatReturnsNothing ==
  /\ pc = "chat"
  /\ response' = NoResponse
  /\ Throw("Unexpected response format from OpenRouter")
  /\ inFlight' = Settle(inFlight, "chat")
  /\ UNCHANGED <<iterationCount, messages, toolIdx, toolResults,
                 content, plan, result, chatCalls, followUps, jsonResponse, lifecycle,
                 cleanupFailed>>
  /\ UNCHANGED <<request, portCall>>
  /\ UNCHANGED nonPlannerVars

\* planner.ts:258-308 the automation call of the current tool call resolves
PortReturns ==
  /\ pc = "port"
  /\ ContinueTools(toolIdx + 1,
                   PushResults(toolResults, ResultMessages(response.toolCalls[toolIdx])),
                   Settle(inFlight, "port"))
  /\ UNCHANGED <<content, plan, result, followUps, jsonResponse, lifecycle, cleanupFailed>>
  /\ UNCHANGED nonPlannerVars

\* an automation failure that propagates out of generateRecordingPlan
PortThrowsFatal ==
  /\ pc = "port"
  /\ PortMayThrow(iterationCount)
  /\ Throw("automation failed")
  /\ inFlight' = Settle(inFlight, "port")
  /\ UNCHANGED <<iterationCount, messages, response, toolIdx, toolResults,
                 content, plan, result, chatCalls, followUps, jsonResponse, lifecycle,
                 cleanupFailed, request, portCall>>
  /\ UNCHANGED nonPlannerVars

\* planner.ts:309-317 the automation call of the current tool call rejects
PortThrows ==
  /\ pc = "port"
  /\ PortMayThrow(iterationCount)
  /\ ContinueTools(toolIdx + 1,
                   PushResults(toolResults,
                               ErrorMessages(response.toolCalls[toolIdx], "automation failed")),
                   Settle(inFlight, "port"))
  /\ UNCHANGED <<content, plan, result, followUps, jsonResponse, lifecycle, cleanupFailed>>
  /\ UNCHANGED nonPlannerVars

\* the follow-up chatCompletion rejects
FollowUpFails ==
  /\ pc = "followup"
  /\ \E e \in TransportErrors : Throw(e)
  /\ inFlight' = Settle(inFlight, "chat")
  /\ UNCHANGED <<iterationCount, messages, response, toolIdx, toolResults,
                 content, plan, result, chatCalls, followUps, jsonResponse, lifecycle,
                 cleanupFailed>>
  /\ UNCHANGED <<request, portCall>>
  /\ UNCHANGED nonPlannerVars

\* a follow-up whose empty answer falls back to the original final text
FollowUpReturnsFallback ==
  /\ pc = "followup"
  /\ \E r \in FollowUpResponses(iterationCount) :
       /\ jsonResponse' = r
       /\ ExtractPlan(IF r.content = <<>> THEN response.content ELSE r.content)
  /\ UNCHANGED <<iterationCount, messages, response, toolIdx, toolResults,
                 chatCalls, followUps, cleanupFailed>>
  /\ UNCHANGED <<request, portCall>>
  /\ UNCHANGED nonPlannerVars

\* planner.ts:344-469 the follow-up resolved: content = jsonResponse.content
\* || '' replaces the final text, and the extraction runs on it; the tool
\* calls of jsonResponse are not read
FollowUpReturns ==
  /\ pc = "followup"
  /\ \E r \in FollowUpResponses(iterationCount) :
       /\ jsonResponse' = r
       /\ ExtractPlan(r.content)
  /\ UNCHANGED <<iterationCount, messages, response, toolIdx, toolResults,
                 chatCalls, followUps, cleanupFailed>>
  /\ UNCHANGED <<request, portCall>>
  /\ UNCHANGED nonPlannerVars

\* planner.ts:466-469 terminateAllApps resolved, pressButton('home') is called
TerminateReturns ==
  /\ pc = "terminate"
  /\ lifecycle' = Append(lifecycle, "pressButton(home)")
  /\ inFlight' = Start(Settle(inFlight, "port"), "port")
  /\ pc' = "press"
  /\ UNCHANGED <<iterationCount, messages, response, toolIdx, toolResults,
                 content, plan, result, error, chatCalls, followUps, jsonResponse,
                 cleanupFailed>>
  /\ UNCHANGED <<request, portCall>>
  /\ UNCHANGED nonPlannerVars

\* a cleanup failure that propagates out of generateRecordingPlan
CleanupRethrows ==
  /\ pc \in {"terminate", "press"}
  /\ cleanupFailed' = TRUE
  /\ inFlight' = Settle(inFlight, "port")
  /\ Throw("automation failed")
  /\ UNCHANGED <<iterationCount, messages, response, toolIdx, toolResults,
                 content, plan, result, chatCalls, followUps, jsonResponse, lifecycle>>
  /\ UNCHANGED <<request, portCall>>
  /\ UNCHANGED nonPlannerVars

\* planner.ts:475-480 a lifecycle call rejected: warning, the plan is returned
CleanupThrows ==
  /\ pc \in {"terminate", "press"}
  /\ cleanupFailed' = TRUE
  /\ inFlight' = Settle(inFlight, "port")
  /\ ReturnPlan
  /\ UNCHANGED <<iterationCount, messages, response, toolIdx, toolResults,
                 content, plan, error, chatCalls, followUps, jsonResponse, lifecycle>>
  /\ UNCHANGED <<request, portCall>>
  /\ UNCHANGED nonPlannerVars

\* planner.ts:469-473 pressButton resolved, the settle timer is started
PressReturns ==
  /\ pc = "press"
  /\ pc' = "settle"
  /\ inFlight' = Start(Settle(inFlight, "port"), "timer")
  /\ UNCHANGED <<iterationCount, messages, response, toolIdx, toolResults,
                 content, plan, result, error, chatCalls, followUps, jsonResponse, lifecycle,
                 cleanupFailed>>
  /\ UNCHANGED <<request, portCall>>
  /\ UNCHANGED nonPlannerVars

\* planner.ts:473-480 the timer fired, the plan is returned
Settled ==
  /\ pc = "settle"
  /\ ReturnPlan
  /\ inFlight' = Settle(inFlight, "timer")
  /\ UNCHANGED <<iterationCount, messages, response, toolIdx, toolResults,
                 content, plan, error, chatCalls, followUps, jsonResponse, lifecycle,
                 cleanupFailed>>
  /\ UNCHANGED <<request, portCall>>
  /\ UNCHANGED nonPlannerVars

\* an Error object: its name and its message
ScriptError(name, message) == [name |-> name, message |-> message]
NoScriptError == ScriptError("none", "none")

ScriptIdle ==
  /\ swPc = "idle"
  /\ swInput = <<>>
  /\ swModel = <<>>
  /\ swOutput = NoScript
  /\ swError = "none"
  /\ swErrorName = "none"
  /\ swCaught = NoScriptError
  /\ swCalls = 0
  /\ swWarned = FALSE

Init == PlannerInit /\ ScriptIdle /\ ClientIdle /\ JsonIdle /\ VideoIdle /\ ModelIdle
  /\ IdeasIdle

Next ==
  \/ Configure
  \/ ConfigureFails
  \/ ChatFails
  \/ ChatReturnsToolCalls
  \/ ChatReturnsText
  \/ ChatReturnsNothing
  \/ PortReturns
  \/ PortThrows
  \/ FollowUpFails
  \/ FollowUpReturns
  \/ TerminateReturns
  \/ CleanupThrows
  \/ PressReturns
  \/ Settled

Spec == Init /\ [][Next]_vars

----------------------------------------------------------------------------
(* generateScript (scriptwriter.ts:50-146).  The values of swPc:           *)
(*   "idle"    not called                                                  *)
(*   "config"  awaiting getOpenRouterApiKey / getModel         (line 71)   *)
(*   "chat"    awaiting client.chatJSON                        (line 77)   *)
(*   "done" resolved, "failed" rejected                                    *)

\* an ActionStep object of the input; ref is its identity (===)
ActionStep(i) == [type |-> "step", ref |-> i]

\* the caller's input.recordingSteps
RecordingSteps(n) == [i \in 1..n |-> ActionStep(i)]

\* an entry of result.timestampedActions as the model returned it
TimestampedActionSimple ==
  [actionIndex : -1..MaxSteps, startTime : 0..MaxTime, endTime : 0..MaxTime]

\* a lookup that clamps the index into the array
LookupClamped(steps, actionIndex) ==
  IF steps = <<>> THEN Undefined
  ELSE IF actionIndex < 0 THEN steps[1]
  ELSE IF actionIndex > Len(steps) - 1 THEN steps[Len(steps)]
  ELSE steps[actionIndex + 1]

\* scriptwriter.ts:102  input.recordingSteps[ta.actionIndex]  (0-based)
Lookup(steps, actionIndex) ==
  IF actionIndex \in 0..(Len(steps) - 1) THEN steps[actionIndex + 1] ELSE Undefined

\* scriptwriter.ts:103  if (!action)
Missing(action) == action = Undefined

\* a reconstruction that collects the entries back to front
ReconstructReversed(steps, tas) ==
  [i \in 1..Len(tas) |->
     [action |-> Lookup(steps, tas[Len(tas) + 1 - i].actionIndex),
      startTime |-> tas[Len(tas) + 1 - i].startTime,
      endTime |-> tas[Len(tas) + 1 - i].endTime]]

\* a reconstruction that recomputes endTime from a fixed action duration
ReconstructFixedDuration(steps, tas) ==
  [i \in 1..Len(tas) |->
     [action |-> Lookup(steps, tas[i].actionIndex),
      startTime |-> tas[i].startTime,
      endTime |-> tas[i].startTime + 1]]

\* a reconstruction that returns at most one entry per input step
ReconstructPerStep(steps, tas) ==
  [i \in 1..(IF Len(tas) < Len(steps) THEN Len(tas) ELSE Len(steps)) |->
     [action |-> Lookup(steps, tas[i].actionIndex),
      startTime |-> tas[i].startTime,
      endTime |-> tas[i].endTime]]

\* scriptwriter.ts:101-111 the map over result.timestampedActions
Reconstruct(steps, tas) ==
  [i \in 1..Len(tas) |->
     [action |-> Lookup(steps, tas[i].actionIndex),
      startTime |-> tas[i].startTime,
      endTime |-> tas[i].endTime]]

\* errors client.chatJSON rejects with (openrouter.ts:140, 168, 197, 209)
ChatJSONErrors == {"OpenRouter API error", "OpenRouter request timeout (>120s)",
                   "No content in response", "JSON parse error"}

\* what client.chatJSON rejects with: what chatCompletion rejects with after
\* its catch block (openrouter.ts:164-171) for an HTTP error and for a fetch
\* aborted by the timer, and the errors of chatJSON itself (197, 209)
ChatJSONRejections ==
  { ScriptError(Catch(ApiError(500, "")).name, "OpenRouter API error"),
    ScriptError(Catch(AbortError).name, Catch(AbortError).message[1]),
    ScriptError("Error", "No content in response"),
    ScriptError("SyntaxError", "JSON parse error") }

\* scriptwriter.ts:126-145 the catch block of generateScript: an error named
\* AbortError is replaced by the enhanced error, any other is rethrown
ScriptCatch(e) ==
  IF e.name = "AbortError"
    THEN ScriptError("ScriptGenerationAbortError", "Script generation was aborted")
    ELSE e

\* scriptwriter.ts:71-145 e is thrown inside the try block
ScriptThrow(e) ==
  /\ swCaught' = e
  /\ swError' = ScriptCatch(e).message
  /\ swErrorName' = ScriptCatch(e).name

ScriptInit ==
  /\ swPc = "config"
  /\ swInput \in {RecordingSteps(n) : n \in 0..MaxSteps}
  /\ swModel = <<>>
  /\ swOutput = NoScript
  /\ swError = "none"
  /\ swErrorName = "none"
  /\ swCaught = NoScriptError
  /\ swCalls = 0
  /\ swWarned = FALSE

\* scriptwriter.ts:71-88 key and model resolved, the request is sent
ScriptConfigure ==
  /\ swPc = "config"
  /\ swPc' = "chat"
  /\ swCalls' = swCalls + 1
  /\ UNCHANGED <<swInput, swModel, swOutput, swError, swErrorName, swCaught, swWarned>>
  /\ UNCHANGED nonScriptVars

\* config.ts:85-98 no API key is configured
ScriptConfigureFails ==
  /\ swPc = "config"
  /\ swPc' = "failed"
  /\ ScriptThrow(ScriptError("Error", "OpenRouter API key not found"))
  /\ UNCHANGED <<swInput, swModel, swOutput, swCalls, swWarned>>
  /\ UNCHANGED nonScriptVars

\* a generateScript that sends the request again when chatJSON rejected
ScriptChatFailsRetrying ==
  /\ swPc = "chat"
  /\ swCalls < 3
  /\ swCalls' = swCalls + 1
  /\ UNCHANGED <<swPc, swInput, swModel, swOutput, swError, swErrorName, swCaught, swWarned>>
  /\ UNCHANGED nonScriptVars

\* scriptwriter.ts:126-145 chatJSON rejected, the error is rethrown
ScriptChatFails ==
  /\ swPc = "chat"
  /\ swPc' = "failed"
  /\ \E e \in ChatJSONRejections : ScriptThrow(e)
  /\ UNCHANGED <<swInput, swModel, swOutput, swCalls, swWarned>>
  /\ UNCHANGED nonScriptVars

\* scriptwriter.ts:90-125 chatJSON resolved with a result
ScriptChatReturns ==
  /\ swPc = "chat"
  /\ \E tas \in SeqsUpTo(TimestampedActionSimple, MaxActions) :
       /\ swModel' = tas
       /\ swWarned' = (Len(tas) # Len(swInput))
       /\ LET timestampedActions == Reconstruct(swInput, tas) IN
            IF \E i \in 1..Len(timestampedActions) : Missing(timestampedActions[i].action)
              THEN /\ swPc' = "failed"
                   /\ ScriptThrow(ScriptError("Error", "Invalid actionIndex"))
                   /\ UNCHANGED swOutput
              ELSE /\ swPc' = "done"
                   /\ swOutput' = [returned |-> TRUE,
                                   timestampedActions |-> timestampedActions]
                   /\ UNCHANGED <<swError, swErrorName, swCaught>>
  /\ UNCHANGED <<swInput, swCalls>>
  /\ UNCHANGED nonScriptVars

PlannerIdle ==
  /\ pc = "idle"
  /\ iterationCount = 0
  /\ messages = <<>>
  /\ response = NoResponse
  /\ toolIdx = 0
  /\ toolResults = <<>>
  /\ content = <<>>
  /\ plan = NoPlan
  /\ result = NoPlan
  /\ error = "none"
  /\ chatCalls = 0
  /\ followUps = 0
  /\ lifecycle = <<>>
  /\ cleanupFailed = FALSE
  /\ request = NoRequest
  /\ portCall = NoPortCall
  /\ jsonResponse = NoResponse
  /\ inFlight = NoneInFlight

InitScript == PlannerIdle /\ ScriptInit /\ ClientIdle /\ JsonIdle /\ VideoIdle /\ ModelIdle
  /\ IdeasIdle

NextScript ==
  \/ ScriptConfigure
  \/ ScriptConfigureFails
  \/ ScriptChatFails
  \/ ScriptChatReturns

SpecScript == InitScript /\ [][NextScript]_vars

----------------------------------------------------------------------------
(* The chat client on its own                                              *)

InitChat == PlannerIdle /\ ScriptIdle /\ ClientIdle /\ JsonIdle /\ VideoIdle /\ ModelIdle
  /\ IdeasIdle

NextChat ==
  \E c \in ChatCallIds :
    \/ CallChatCompletion(c)
    \/ FetchResolves(c)
    \/ FetchRejects(c)
    \/ TimerFires(c)
    \/ TextResolves(c)
    \/ JsonResolves(c)
    \/ BodyRejects(c)

SpecChat == InitChat /\ [][NextChat]_vars

InitChatJSON == PlannerIdle /\ ScriptIdle /\ ClientIdle /\ JsonInit /\ VideoIdle /\ ModelIdle
  /\ IdeasIdle

NextChatJSON ==
  \/ ChatJSONRejects
  \/ ChatJSONResolves

SpecChatJSON == InitChatJSON /\ [][NextChatJSON]_vars

InitVideo == PlannerIdle /\ ScriptIdle /\ ClientIdle /\ JsonIdle /\ VideoIdle /\ ModelIdle
  /\ IdeasIdle

NextVideo ==
  \E o \in VideoOps :
    \/ CallStorage(o)
    \/ Initialized(o)
    \/ Saved(o)

SpecVideo == InitVideo /\ [][NextVideo]_vars

InitModel == PlannerIdle /\ ScriptIdle /\ ClientIdle /\ JsonIdle /\ VideoIdle /\ ModelInit
  /\ IdeasIdle

NextModel == GetModelReturns

SpecModel == InitModel /\ [][NextModel]_vars

InitIdeas ==
  PlannerIdle /\ ScriptIdle /\ ClientIdle /\ JsonIdle /\ VideoIdle /\ ModelIdle
  /\ IdeasInit

NextIdeas == GenerateReturns

SpecIdeas == InitIdeas /\ [][NextIdeas]_vars

----------------------------------------------------------------------------
(* Properties of generateRecordingPlan                                     *)

EmptyStepsError == "Plan validation failed: recordingSteps is empty"
MaxIterationsError == "Max iterations reached without generating plan"
ExpectedCleanup == <<"terminateAllApps", "pressButton(home)">>

\* the value JSON.parse gave for the text the plan was extracted from
Parsed == JSONParse(jsonStr(content))
IsObject(v) == v.type = "obj"
HasEmptySteps(v) == IsObject(v) /\ v.recordingSteps = JArray(<<>>)
IsValidatedPlan(v) ==
  /\ IsObject(v)
  /\ v.recordingSteps.type = "arr"
  /\ Len(v.recordingSteps.items) > 0
Extracted == pc \in {"terminate", "press", "settle", "done", "failed"}

IsToolMessage(m) == m.role = "tool"
IsAssistantMessage(m) == m.role = "assistant"
ToolMessages(msgs) == SelectSeq(msgs, IsToolMessage)
\* the position of the last assistant message at or before position i
RECURSIVE LastAssistantIn(_, _)
LastAssistantIn(msgs, i) ==
  IF i = 0 THEN 0
  ELSE IF IsAssistantMessage(msgs[i]) THEN i
  ELSE LastAssistantIn(msgs, i - 1)
LastAssistant == LastAssistantIn(messages, Len(messages))
\* the messages appended for the latest tool round
LastTurn == SubSeq(messages, LastAssistant + 1, Len(messages))
Answers(m, toolCall) == m.call = toolCall.id /\ m.tool = toolCall.name
\* the tool messages of msgs answer the first k calls, one each, in order
InOrder(msgs, calls, k) ==
  /\ Len(ToolMessages(msgs)) = k
  /\ \A i \in 1..k : Answers(ToolMessages(msgs)[i], calls[i])
\* assistant turns with tool calls that are in the history
ToolRounds ==
  Cardinality({i \in 1..Len(messages) : IsAssistantMessage(messages[i])}) - followUps
UnknownCall(toolCall) == toolCall.name \notin DeclaredTools
\* the for loop went past tool call k of the latest response
Reached(k) ==
  \/ pc = "port" /\ toolIdx > k
  \/ pc \notin {"port", "config"} /\ response.toolCalls # <<>>
\* the results of the tool round that is running or was pushed last
TurnResults == IF pc = "port" THEN toolResults ELSE LastTurn

\* C1: whenever the text the plan is extracted from (the final text, or the
\* follow-up answer that replaced it) parses to an object whose recordingSteps
\* is the empty list, the call is rejected with the 'recordingSteps is empty'
\* error and nothing is returned; whatever was returned has steps.
C1_ValidationGate ==
  /\ (Extracted /\ Parsed.ok /\ HasEmptySteps(Parsed.val)) =>
        (pc = "failed" /\ error = EmptyStepsError /\ result = NoPlan)
  /\ pc = "done" => ~HasEmptySteps(result)

C1_Witness ==
  /\ pc = "failed"
  /\ error = EmptyStepsError
  /\ iterationCount = maxIterations
  /\ followUps = 1

\* C2: the loop makes one chatCompletion call per iteration and never more
\* than 100; the max-iterations error is thrown exactly after 100 calls that
\* all returned tool calls, and 100 tool rounds always end in that error.
C2_IterationBound ==
  /\ chatCalls = iterationCount
  /\ chatCalls <= maxIterations
  /\ error = MaxIterationsError =>
       (pc = "failed" /\ chatCalls = maxIterations /\ followUps = 0
          /\ ToolRounds = maxIterations)
  /\ ToolRounds = maxIterations => (pc = "failed" /\ error = MaxIterationsError)

C2_Witness ==
  /\ pc = "failed"
  /\ error = MaxIterationsError
  /\ chatCalls = 100

\* C3: tool calls of one assistant turn run one at a time in emitted order:
\* while call k is awaited, the results so far answer exactly the calls
\* 1..k-1 in order; when the next chatCompletion call is in flight, the history
\* ends with that turn's assistant message followed by the results of all
\* its calls in emitted order.
C3_Ordering ==
  /\ pc = "port" => InOrder(toolResults, response.toolCalls, toolIdx - 1)
  /\ (pc = "chat" /\ iterationCount > 1) =>
       /\ messages[LastAssistant] = assistantMessage(response)
       /\ InOrder(LastTurn, response.toolCalls, Len(response.toolCalls))

C3_Witness ==
  /\ pc = "chat"
  /\ response.toolCalls = WithIds(<<Screenshot, ListElements, Tap>>)
  /\ Len(ToolMessages(LastTurn)) = 3

\* C4 as stated: once the for loop went past a tool call whose name is not
\* declared, the run is rejected with the unknown-tool error.
C4_UnknownToolFatal ==
  \A k \in 1..Len(response.toolCalls) :
    (UnknownCall(response.toolCalls[k]) /\ Reached(k)) =>
       (pc = "failed" /\ error = "Unknown tool")

\* C4 amended: an unknown tool name is not fatal.  The unknown-tool error is
\* never the error of the run, no automation call is made for an unknown
\* name, and the call is answered by exactly one tool message carrying the
\* 'Unknown tool' error, in the results of its turn.
C4_UnknownToolAbsorbed ==
  /\ error # "Unknown tool"
  /\ pc = "port" => ~UnknownCall(response.toolCalls[toolIdx])
  /\ \A k \in 1..Len(response.toolCalls) :
       (UnknownCall(response.toolCalls[k]) /\ Reached(k) /\ pc \in {"port", "chat"}) =>
          /\ Cardinality({i \in 1..Len(TurnResults) : TurnResults[i].call = k}) = 1
          /\ \E i \in 1..Len(TurnResults) :
               TurnResults[i] = ErrorMessages(response.toolCalls[k], "Unknown tool")[1]

C4_Witness ==
  /\ pc = "chat"
  /\ \E i \in 1..Len(messages) : messages[i].detail = "Unknown tool"

\* C5: a run that resolved returns a plan that passed validation; a run that
\* was rejected carries an error and returned nothing; nothing is returned
\* before the run resolved.
C5_NoDegradedSuccess ==
  /\ pc = "done" => (IsValidatedPlan(result) /\ error = "none")
  /\ pc = "failed" => (error # "none" /\ result = NoPlan)
  /\ pc \notin {"done"} => result = NoPlan

C5_Witness ==
  /\ pc = "failed"
  /\ error = "JSON parse error"
  /\ followUps = 1

\* C6: when no lifecycle call failed, a resolved run called terminateAllApps
\* and then pressButton('home'), once each; lifecycle calls are made only for
\* a plan that passed validation and before anything is returned.
C6_CleanupOnSuccess ==
  /\ (pc = "done" /\ ~cleanupFailed) => lifecycle = ExpectedCleanup
  /\ lifecycle # <<>> => (IsValidatedPlan(plan) /\ plan = Parsed.val)
  /\ pc = "terminate" => (lifecycle = <<"terminateAllApps">> /\ result = NoPlan)
  /\ pc \in {"press", "settle"} => (lifecycle = ExpectedCleanup /\ result = NoPlan)

C6_Witness ==
  /\ pc = "done"
  /\ ~cleanupFailed
  /\ lifecycle = ExpectedCleanup
  /\ iterationCount = maxIterations

\* C7: when a lifecycle call throws, the run still resolves, with the plan
\* that was parsed and validated, unchanged, and without an error.
C7_CleanupFailureTolerated ==
  cleanupFailed =>
    /\ pc = "done"
    /\ error = "none"
    /\ result = Parsed.val
    /\ IsValidatedPlan(result)

C7_Witness ==
  /\ pc = "done"
  /\ cleanupFailed
  /\ lifecycle = <<"terminateAllApps">>
  /\ IsValidatedPlan(result)

----------------------------------------------------------------------------
(* Properties of generateScript                                            *)

Output == swOutput.timestampedActions
InRange(actionIndex) == actionIndex \in 0..(Len(swInput) - 1)
\* position of an input step in input.recordingSteps
Position(action) == CHOOSE k \in 1..Len(swInput) : swInput[k] = action

\* C8: every returned entry carries the input step at the actionIndex the
\* model gave for that entry; when a returned actionIndex is out of range the
\* call is rejected with the invalid-index error and returns nothing.
C8_IndexIntegrity ==
  /\ swPc = "done" =>
       /\ swOutput.returned
       /\ Len(Output) = Len(swModel)
       /\ \A i \in 1..Len(swModel) :
            /\ InRange(swModel[i].actionIndex)
            /\ Output[i].action = swInput[swModel[i].actionIndex + 1]
  /\ (\E i \in 1..Len(swModel) : ~InRange(swModel[i].actionIndex)) =>
       (swPc = "failed" /\ swError = "Invalid actionIndex" /\ swOutput = NoScript)

C8_Witness ==
  /\ swPc = "done"
  /\ Len(Output) = 2
  /\ Output[1].action = ActionStep(2)
  /\ swModel[1].actionIndex = 1

UpstreamErrors == ChatJSONErrors \cup {"OpenRouter API key not found"}

\* C11: a count mismatch is not fatal: when the model returns a number of
\* timestampedActions different from the number of input steps, with every
\* actionIndex in range, generateScript logs the warning and resolves with
\* exactly as many entries as the model returned; the only rejection after
\* the model answered is the one for an actionIndex out of range.
C11_CountMismatchNonFatal ==
  /\ (/\ swPc = "done"
      /\ Len(swModel) # Len(swInput))
       => /\ swWarned
          /\ swError = "none"
          /\ swOutput.returned
          /\ Len(Output) = Len(swModel)
  /\ (swPc = "done" /\ Len(swModel) = Len(swInput)) => ~swWarned
  /\ (swPc = "failed" /\ swError \notin UpstreamErrors)
       => /\ swError = "Invalid actionIndex"
          /\ \E i \in 1..Len(swModel) : ~InRange(swModel[i].actionIndex)
  /\ (/\ swPc \in {"done", "failed"}
      /\ swError \notin UpstreamErrors
      /\ \A i \in 1..Len(swModel) : InRange(swModel[i].actionIndex))
       => swPc = "done"

\* more entries than input steps, and fewer
C11_Witness ==
  /\ swPc = "done"
  /\ swWarned
  /\ Len(swInput) = 1
  /\ Len(swModel) = 2
  /\ Len(Output) = 2

C11_WitnessFewer ==
  /\ swPc = "done"
  /\ swWarned
  /\ Len(swInput) = 2
  /\ Len(Output) = 1

MalformedCall(toolCall) == toolCall.arguments = "malformed"
\* errors of the chatCompletion call that follows a tool round
NextCallErrors ==
  TransportErrors \cup {"Unexpected response format from OpenRouter", MaxIterationsError}

\* C12: a tool call whose arguments are not JSON is executed with an empty
\* argument object: the automation call made for it is the one of the named
\* tool with arguments {}; the call is answered by exactly one tool-role
\* message in the results of its turn; the run is not rejected by the tool
\* round, and the next chatCompletion call is made with that turn pushed to
\* the history.
C12_MalformedArgsDegrade ==
  /\ (pc = "port" /\ MalformedCall(response.toolCalls[toolIdx])) =>
       /\ portCall.args = "{}"
       /\ portCall.method = executeMCPTool(response.toolCalls[toolIdx].name, "{}").method
  /\ \A k \in 1..Len(response.toolCalls) :
       (MalformedCall(response.toolCalls[k]) /\ Reached(k)) =>
          /\ Cardinality({i \in 1..Len(TurnResults) : TurnResults[i].call = k}) = 1
          /\ \A i \in 1..Len(TurnResults) :
               TurnResults[i].call = k =>
                 (IsToolMessage(TurnResults[i]) /\ Answers(TurnResults[i], response.toolCalls[k]))
          /\ pc \in {"port", "chat", "failed"}
          /\ pc = "failed" => error \in NextCallErrors
          /\ pc = "chat" =>
               /\ request = LoopRequest(messages)
               /\ messages[LastAssistant] = assistantMessage(response)
               /\ chatCalls = iterationCount

\* the malformed call was executed and the next model call is in flight
C12_Witness ==
  /\ pc = "chat"
  /\ iterationCount = 2
  /\ \E k \in 1..Len(response.toolCalls) :
       /\ MalformedCall(response.toolCalls[k])
       /\ \E i \in 1..Len(LastTurn) :
            LastTurn[i] = ResultMessages(response.toolCalls[k])[1]
  /\ portCall = [method |-> "typeText", args |-> "{}"]

\* the latest response of the loop is a final text answer
TextOnly(resp) == resp.toolCalls = <<>> /\ resp.content # <<>>
\* the heuristic as the claim words it: the trimmed text starts with '{' and
\* the text contains "title"
PassesHeuristic(t) ==
  /\ \E i \in 1..Len(t) :
       /\ t[i] = "{"
       /\ \A j \in 1..(i - 1) : t[j] = "SP"
  /\ \E i \in 1..Len(t) : t[i] = "T"
AfterFinalAnswer == {"followup", "terminate", "press", "settle", "done", "failed"}

\* steps left to the end of the run once the final answer was received
StepsToEnd(p) ==
  CASE p = "followup" -> 4
    [] p = "terminate" -> 3
    [] p = "press" -> 2
    [] p = "settle" -> 1
    [] OTHER -> 0

C13_State ==
  /\ followUps \in {0, 1}
  /\ TextOnly(response) =>
       /\ pc \in AfterFinalAnswer
       /\ (followUps = 1) <=> ~PassesHeuristic(response.content)
  /\ followUps = 1 =>
       /\ TextOnly(response)
       /\ pc \in AfterFinalAnswer
       /\ request = FollowUpRequest(messages)
       /\ chatCalls = iterationCount
  /\ pc = "followup" => followUps = 1

\* after the follow-up every step makes no chatCompletion call and brings the
\* run closer to its end
C13_Step ==
  followUps = 1 =>
    /\ followUps' = 1
    /\ chatCalls' = chatCalls
    /\ request' = request
    /\ StepsToEnd(pc') < StepsToEnd(pc)
    /\ StepsToEnd(pc') = 0 => pc' \in {"done", "failed"}

\* C13: the follow-up call is made at most once per run, and exactly when the
\* final text answer fails the heuristic; it carries the system prompt and
\* the whole history in JSON mode; once it was made no further chatCompletion
\* call is made: every later step only extracts or cleans up, and the run
\* ends resolved or rejected within four steps.
C13_SingleFollowUp == []C13_State /\ [][C13_Step]_vars

\* a follow-up was made in the third iteration and the run resolved
C13_Witness ==
  /\ followUps = 1
  /\ pc = "done"
  /\ chatCalls = maxIterations
  /\ ~PassesHeuristic(response.content)

\* a final answer that passes the heuristic is extracted without follow-up
C13_WitnessDirect ==
  /\ followUps = 0
  /\ pc = "done"
  /\ PassesHeuristic(response.content)

\* the extraction of planner.ts:358-392 ran: on the final answer itself, or
\* on the answer to the follow-up
ExtractionRan ==
  \/ TextOnly(response) /\ followUps = 0 /\ pc \in AfterFinalAnswer
  \/ followUps = 1 /\ pc # "followup" /\ error \notin TransportErrors
\* the candidates of the three strategies for a text, in the order tried
Candidates(t) ==
  (IF markdownMatch(t).found THEN <<markdownMatch(t).text>> ELSE <<>>)
    \o (IF jsonObjectMatch(t).found THEN <<jsonObjectMatch(t).text>> ELSE <<>>)
    \o <<Trim(t)>>
Parseable(t) == {i \in 1..Len(Candidates(t)) : JSONParse(Candidates(t)[i]).ok}
Plans == {"terminate", "press", "settle", "done"}

\* C14 as stated: the extractor uses the first candidate that parses as JSON
\* and throws the parse error only when no candidate parses.
C14_FirstParseable ==
  ExtractionRan =>
    /\ (error = "JSON parse error") <=> (Parseable(content) = {})
    /\ pc \in Plans =>
         plan = JSONParse(Candidates(content)[Min(Parseable(content))]).val

\* C14 amended: the extractor hands exactly one candidate to JSON.parse, the
\* one of the first strategy whose pattern matches (fenced block, else the
\* title..recordingSteps span, else the trimmed text), whether or not it
\* parses: the parse error is thrown exactly when that candidate does not
\* parse, a plan that is kept is the parse of that candidate, and no empty
\* plan is substituted.
C14_FirstMatching ==
  ExtractionRan =>
    /\ (error = "JSON parse error") <=> ~JSONParse(Candidates(content)[1]).ok
    /\ error = "JSON parse error" => (pc = "failed" /\ plan = NoPlan /\ result = NoPlan)
    /\ pc \in Plans =>
         /\ plan = JSONParse(Candidates(content)[1]).val
         /\ IsValidatedPlan(plan)

\* the fenced candidate does not parse, a later candidate would have
C14_Witness ==
  /\ ExtractionRan
  /\ pc = "failed"
  /\ error = "JSON parse error"
  /\ markdownMatch(content).found
  /\ Parseable(content) # {}

FencedPlanText == <<"OJ">> \o ValidPlanText \o <<"CL">>

\* C15 (scenario 6): when the final text answer is a fenced json block holding
\* a valid plan with steps, and no chatCompletion call fails, the run is never
\* rejected, and what it keeps and returns is the plan of that block, taken
\* by the fenced-block strategy from that answer.
C15_FencedFinalAnswer ==
  (/\ TextOnly(response)
   /\ response.content = FencedPlanText
   /\ error \notin TransportErrors
   /\ pc \in Plans \cup {"failed"})
    => /\ pc \in Plans
       /\ content = response.content
       /\ plan = JSONParse(markdownMatch(response.content).text).val

----------------------------------------------------------------------------
(* Properties of the chat client                                           *)

\* the position of the brace that closes the one opened before position j
RECURSIVE CloseOf(_, _, _)
CloseOf(t, j, depth) ==
  IF j > Len(t) THEN 0
  ELSE IF t[j] = "{" THEN CloseOf(t, j + 1, depth + 1)
  ELSE IF t[j] = "}" THEN (IF depth = 1 THEN j ELSE CloseOf(t, j + 1, depth - 1))
  ELSE CloseOf(t, j + 1, depth)
\* the first brace-balanced {...} span of a text
BalancedSpan(t) ==
  LET starts == {i \in Positions(t, "{") : CloseOf(t, i + 1, 1) # 0}
  IN IF starts = {} THEN <<>>
     ELSE <<SubSeq(t, Min(starts), CloseOf(t, Min(starts) + 1, 1))>>
\* the candidates of the three strategies the claim names, in order
ChatJSONCandidates(t) ==
  (IF chatJSONFence(Trim(t)).found THEN <<chatJSONFence(Trim(t)).capture>> ELSE <<>>)
    \o BalancedSpan(Trim(t))
    \o <<Trim(t)>>
ChatJSONParseable(t) ==
  {i \in 1..Len(ChatJSONCandidates(t)) : JSONParse(ChatJSONCandidates(t)[i]).ok}
\* chatJSON settled after chatCompletion resolved with content
ContentHandled == cjPc \in {"done", "failed"} /\ cjContent # <<>>
\* the greedy span from the first opening brace to the last closing brace
HasBraces(t) == \E i \in Positions(t, "{") : \E j \in Positions(t, "}") : i < j
GreedySpan(t) == SubSeq(t, Min(Positions(t, "{")), Max(Positions(t, "}")))
\* the one text chatJSON parses
ChatJSONChosen(t) ==
  LET tr == Trim(t)
      fence == chatJSONFence(tr)
  IN IF fence.found /\ fence.capture # <<>> THEN fence.capture
     ELSE IF fence.found THEN fence.text
     ELSE IF HasBraces(tr) /\ Min(Positions(tr, "{")) < Max(Positions(tr, "}"))
       THEN GreedySpan(tr)
     ELSE tr

\* C16 as stated: chatJSON returns the parse of the first of the three
\* candidates (fenced block, first brace-balanced span, whole trimmed text)
\* that parses, and throws the parse error only when none of them parses.
C16_FirstParseable ==
  ContentHandled =>
    IF ChatJSONParseable(cjContent) = {}
      THEN cjPc = "failed" /\ cjError = "JSON parse error"
      ELSE /\ cjPc = "done"
           /\ cjValue = JSONParse(ChatJSONCandidates(cjContent)
                                    [Min(ChatJSONParseable(cjContent))]).val

\* C16 amended: chatJSON parses exactly one text: the capture of the first
\* ```json fence of the trimmed content if there is one (the whole fence when
\* the capture is empty), else the span from the first opening brace to the
\* last closing brace if there is one, else the trimmed content.  It returns
\* the parse of that text, and throws the parse error whenever that text
\* does not parse, whatever another candidate would have given; content that
\* is absent or empty is rejected before any extraction.
C16_SingleCandidate ==
  /\ ContentHandled =>
       IF JSONParse(ChatJSONChosen(cjContent)).ok
         THEN /\ cjPc = "done"
              /\ cjValue = JSONParse(ChatJSONChosen(cjContent)).val
              /\ cjError = "none"
         ELSE /\ cjPc = "failed"
              /\ cjError = "JSON parse error"
              /\ cjValue = Undefined
  /\ cjError = "No content in response" => (cjPc = "failed" /\ cjContent = <<>>)

\* two objects in a row: the greedy span does not parse, the first balanced
\* span would have
C16_Witness ==
  /\ cjPc = "failed"
  /\ cjError = "JSON parse error"
  /\ cjContent = <<"{", "T", "}", "{", "}">>
  /\ JSONParse(BalancedSpan(cjContent)[1]).ok

\* a fenced object is returned
C16_WitnessFenced ==
  /\ cjPc = "done"
  /\ cjContent = <<"OJ", "{", "T", "}", "CL">>
  /\ cjValue = [EmptyObject EXCEPT !.title = TRUE]

\* fetch of call c resolved with a non-2xx response
NonSuccess(c) == ccCalls[c].status # 0 /\ ~Ok(ccCalls[c].status)
\* the error message is the API error prefix, the status code and the body
Carries(e, status, body) ==
  /\ Len(e.message) = 3
  /\ e.message[2] = status
  /\ e.message[3] = body

\* C17: a non-2xx response is fatal and not retried: every chatCompletion
\* call sends exactly one HTTP request; once fetch resolved with a non-2xx
\* status the call never resolves, and when the body of that response was
\* read it rejects with the API error whose message carries the status code
\* and the raw body.
C17_NonSuccessFatal ==
  \A c \in ChatCallIds :
    /\ ccCalls[c].requests = (IF ccCalls[c].pc = "idle" THEN 0 ELSE 1)
    /\ NonSuccess(c) =>
         /\ ccCalls[c].pc \in {"text", "failed"}
         /\ (ccCalls[c].pc = "failed" /\ ccCalls[c].error # BodyError) =>
              /\ ccCalls[c].error = ApiError(ccCalls[c].status, ccCalls[c].body)
              /\ Carries(ccCalls[c].error, ccCalls[c].status, ccCalls[c].body)
              /\ ccCalls[c].error.message[1] = "OpenRouter API error:"
    /\ ccCalls[c].error.message # <<>> /\ ccCalls[c].error.message[1] = "OpenRouter API error:"
         => NonSuccess(c)

\* the case of the test suite: 404 with the body 'Not found'
C17_Witness ==
  \E c \in ChatCallIds :
    /\ ccCalls[c].pc = "failed"
    /\ ccCalls[c].error = ApiError(404, "Not found")
    /\ ccCalls[c].requests = 1

\* C18: a call whose timer fires while its fetch is pending rejects with the
\* timeout error, and only such a call does; the timeout error differs from
\* every API error and from the network error; every call arms its own
\* timer when it sends its request, the timer is no longer armed once fetch
\* settled, and a timer that fires leaves every other call as it was.
C18_State ==
  /\ \A c \in ChatCallIds :
       /\ (ccCalls[c].timer = "fired") <=> (ccCalls[c].error = TimeoutError)
       /\ ccCalls[c].timer = "fired" =>
            /\ ccCalls[c].pc = "failed"
            /\ ccCalls[c].status = 0
            /\ ccCalls[c].error.message = <<"OpenRouter request timeout (>120s)">>
       /\ (ccCalls[c].pc = "fetch") <=> (ccCalls[c].timer = "armed")
       /\ (ccCalls[c].pc = "idle") <=> (ccCalls[c].timer = "unset")
  /\ TimeoutError # NetworkError
  /\ TimeoutError # AbortError
  /\ \A status \in HttpStatuses : \A body \in ErrorBodies :
       TimeoutError # ApiError(status, body)

C18_Step ==
  \A c \in ChatCallIds :
    (ccCalls[c].timer # "fired" /\ ccCalls'[c].timer = "fired") =>
      /\ ccCalls[c].pc = "fetch"
      /\ \A d \in ChatCallIds \ {c} : ccCalls'[d] = ccCalls[d]

C18_DistinctTimeout == []C18_State /\ [][C18_Step]_vars

\* one call timed out while another call, still pending, keeps its own timer
C18_Witness ==
  \E c, d \in ChatCallIds :
    /\ ccCalls[c].pc = "failed"
    /\ ccCalls[c].error = TimeoutError
    /\ ccCalls[d].pc = "fetch"
    /\ ccCalls[d].timer = "armed"

----------------------------------------------------------------------------
(* Properties of the planner's requests and tool messages                  *)

\* the request carries the system prompt, then the whole history in order
FullTranscript(req, msgs) ==
  /\ Len(req.messages) = Len(msgs) + 1
  /\ req.messages[1] = SystemMessage
  /\ \A i \in 1..Len(msgs) : req.messages[i + 1] = msgs[i]
FiveTools(req) ==
  /\ req.tools = DeclaredTools
  /\ Cardinality(req.tools) = 5
  /\ req.tool_choice = "auto"

C19_State ==
  /\ chatCalls = iterationCount
  /\ pc = "chat" =>
       /\ FullTranscript(request, messages)
       /\ FiveTools(request)
       /\ request.response_format = "-"
  /\ pc = "followup" => FullTranscript(request, messages)

C19_Step ==
  /\ iterationCount' \in {iterationCount, iterationCount + 1}
  /\ chatCalls' - chatCalls = iterationCount' - iterationCount
  /\ iterationCount' = iterationCount + 1 =>
       /\ pc' = "chat"
       /\ FullTranscript(request', messages')
       /\ FiveTools(request')
  /\ (request' # request) =>
       /\ pc' \in {"chat", "followup"}
       /\ chatCalls' + followUps' = chatCalls + followUps + 1

\* C19: every loop iteration makes exactly one chatCompletion call of the
\* loop, and that call carries the system prompt first, then every message of
\* the history in order, with the five declared tools and tool_choice auto;
\* the follow-up call of the last iteration carries the same full transcript.
C19_FullTranscript == []C19_State /\ [][C19_Step]_vars

\* the third loop call, after two tool rounds
C19_Witness ==
  /\ pc = "chat"
  /\ iterationCount = 3
  /\ Len(messages) >= 5
  /\ Len(request.messages) = Len(messages) + 1
  /\ request.messages[Len(request.messages)] = messages[Len(messages)]

\* the messages of the running or last tool round that belong to call k
MessagesOf(k) == SelectSeq(TurnResults, LAMBDA m : m.call = k)
\* the messages of call k lie next to each other in the results
Adjacent(k) ==
  \A i, j \in 1..Len(TurnResults) :
    (i < j /\ TurnResults[i].call = k /\ TurnResults[j].call = k) =>
       \A h \in i..j : TurnResults[h].call = k
Failed(k) == MessagesOf(k)[1].kind = "error"

\* C20: a take_screenshot call that succeeded is answered by exactly two
\* messages next to each other: a tool message with the summary (format,
\* width, height) and without the image data, then a user message carrying
\* the image; every other call that succeeded is answered by exactly one
\* tool message holding its result; a call that failed by one tool message.
C20_ScreenshotDualMessage ==
  \A k \in 1..Len(response.toolCalls) :
    (Reached(k) /\ pc \in {"port", "chat"}) =>
      /\ Len(MessagesOf(k)) >= 1
      /\ Adjacent(k)
      /\ IF Failed(k) THEN Len(MessagesOf(k)) = 1 /\ MessagesOf(k)[1].role = "tool"
         ELSE IF response.toolCalls[k].name = "mobile_take_screenshot"
           THEN /\ Len(MessagesOf(k)) = 2
                /\ MessagesOf(k)[1].role = "tool"
                /\ MessagesOf(k)[1].kind = "screenshotSummary"
                /\ MessagesOf(k)[1].detail = "format,width,height"
                /\ MessagesOf(k)[2].role = "user"
                /\ MessagesOf(k)[2].kind = "image"
                /\ MessagesOf(k)[2].detail = "base64"
           ELSE /\ Len(MessagesOf(k)) = 1
                /\ MessagesOf(k)[1].role = "tool"
                /\ MessagesOf(k)[1].kind = "result"
                /\ MessagesOf(k)[1].detail # "base64"

\* a round of three calls: the screenshot gave two messages, the others one
C20_Witness ==
  /\ pc = "chat"
  /\ response.toolCalls = WithIds(<<Screenshot, ListElements, Tap>>)
  /\ Len(LastTurn) = 4
  /\ LastTurn[1].kind = "screenshotSummary"
  /\ LastTurn[2].kind = "image"
  /\ LastTurn[3].kind = "result"

----------------------------------------------------------------------------
(* Properties of the planner's control flow and history                    *)

\* the planner is suspended on a chatCompletion call / on a call of the
\* automation object
AwaitsChat == pc \in {"chat", "followup"}
AwaitsPort == pc \in {"port", "terminate", "press"}

\* C21: during one generateRecordingPlan invocation at most one operation
\* among chat-completion calls and capability-port calls is in flight: never
\* two chat calls, never two port calls, never a chat call together with a
\* port call; the one in flight is the one the planner is suspended on, and
\* none is left in flight when the invocation has settled.
C21_Sequential ==
  /\ inFlight.chat \in {0, 1}
  /\ inFlight.port \in {0, 1}
  /\ inFlight.chat + inFlight.port <= 1
  /\ (inFlight.chat = 1) <=> AwaitsChat
  /\ (inFlight.port = 1) <=> AwaitsPort
  /\ pc \in {"done", "failed"} => (inFlight.chat = 0 /\ inFlight.port = 0)

\* the second tool call of a turn of three is in flight, after the first
\* one settled
C21_Witness ==
  /\ pc = "port"
  /\ Len(response.toolCalls) = 3
  /\ toolIdx = 2
  /\ Len(toolResults) >= 1
  /\ inFlight.port = 1

\* s is a prefix of t
IsPrefix(s, t) == Len(s) <= Len(t) /\ SubSeq(t, 1, Len(s)) = s

\* C22: the history only grows by appending at its end: in every step the
\* history before the step is a prefix of the history after it, so no
\* message is removed, reordered or modified and every earlier history is a
\* prefix of every later one; the history always starts with the user prompt.
C22_State ==
  /\ Len(messages) >= 1
  /\ messages[1] = UserPromptMessage
C22_Step == IsPrefix(messages, messages')
C22_AppendOnly == []C22_State /\ [][C22_Step]_vars

\* the follow-up request was appended in the last iteration, after a hundred
\* turns were appended one by one
C22_Witness ==
  /\ pc = "followup"
  /\ iterationCount = maxIterations
  /\ Len(messages) > 2 * maxIterations
  /\ messages[Len(messages)] = JsonRequestMessage

\* C23: a chat-completion call of the planner that fails is fatal: the
\* planner rejects with the error of that call, returns no plan and runs no
\* cleanup; the step in which the call fails sends no request again and
\* starts no chat or capability-port call, and nothing is in flight
\* afterwards.  Every chat call the loop makes belongs to its own iteration.
C23_State ==
  /\ error \in TransportErrors =>
       /\ pc = "failed"
       /\ result = NoPlan
       /\ plan = NoPlan
       /\ lifecycle = <<>>
       /\ inFlight.chat = 0 /\ inFlight.port = 0
  /\ chatCalls = iterationCount
C23_Step ==
  (error \notin TransportErrors /\ error' \in TransportErrors) =>
    /\ AwaitsChat
    /\ pc' = "failed"
    /\ chatCalls' = chatCalls /\ followUps' = followUps
    /\ request' = request /\ portCall' = portCall
    /\ messages' = messages /\ iterationCount' = iterationCount
    /\ inFlight' = Settle(inFlight, "chat")
C23_TransportFatal == []C23_State /\ [][C23_Step]_vars

\* the second call of the loop timed out, after a tool round
C23_Witness ==
  /\ pc = "failed"
  /\ error = "OpenRouter request timeout (>120s)"
  /\ chatCalls = 2
  /\ Len(messages) > 1
  /\ followUps = 0

\* the follow-up call was answered with an API error
C23_WitnessFollowUp ==
  /\ pc = "failed"
  /\ error = "OpenRouter API error"
  /\ followUps = 1

----------------------------------------------------------------------------
(* Properties of the scriptwriter's request                                *)

\* the outcomes of generateScript after its request was sent
ScriptOutcomes == ChatJSONErrors \cup {"Invalid actionIndex", "none"}

\* C24: one generateScript invocation makes at most one chat-completion
\* request: none while the key and the model are being resolved or when that
\* fails, exactly one from then on, whatever the outcome (a script, a JSON
\* parse failure, an invalid action index, an HTTP error, a timeout); the
\* request is sent by the step that leaves the configuration, and by no other.
C24_State ==
  /\ swCalls \in {0, 1}
  /\ swPc \in {"idle", "config"} => swCalls = 0
  /\ swPc = "chat" => swCalls = 1
  /\ swPc = "done" => (swCalls = 1 /\ swError = "none")
  /\ swPc = "failed" =>
       IF swError = "OpenRouter API key not found"
         THEN swCalls = 0
         ELSE swCalls = 1 /\ swError \in ScriptOutcomes
C24_Step ==
  swCalls' # swCalls => (swPc = "config" /\ swPc' = "chat" /\ swCalls' = swCalls + 1)
C24_SingleShot == []C24_State /\ [][C24_Step]_vars

\* the answer did not parse: one request was made, and no second one
C24_Witness ==
  /\ swPc = "failed"
  /\ swError = "JSON parse error"
  /\ swCalls = 1

\* the request timed out
C24_WitnessTimeout ==
  /\ swPc = "failed"
  /\ swError = "OpenRouter request timeout (>120s)"
  /\ swCalls = 1

----------------------------------------------------------------------------
(* Properties of the extraction strategies                                 *)

\* C25 as stated: for the text the plan is extracted from, all the
\* candidates of the three strategies that parse as JSON parse to the same
\* value.
C25_StrategiesAgree ==
  ExtractionRan =>
    \A i, j \in Parseable(content) :
      JSONParse(Candidates(content)[i]).val = JSONParse(Candidates(content)[j]).val

\* C25 amended: extraction is a function of the text: a plan that is kept is
\* the parse of the one candidate selected for the text.  The strategies
\* agree when the trimmed text is itself a JSON object: every candidate that
\* parses is then that object, the candidate selected is the trimmed text,
\* no parse error is thrown and a plan that is kept is that object.  For
\* other texts two strategies that both parse may give different values.
C25_WholeObject ==
  ExtractionRan =>
    LET whole == JSONParse(Trim(content)) IN
      /\ pc \in Plans => plan = JSONParse(jsonStr(content)).val
      /\ (whole.ok /\ IsObject(whole.val)) =>
           /\ error # "JSON parse error"
           /\ jsonStr(content) = Trim(content)
           /\ \A i \in Parseable(content) :
                JSONParse(Candidates(content)[i]).val = whole.val
           /\ pc \in Plans => plan = whole.val

\* a plan that is a JSON object was taken by the title..recordingSteps
\* strategy and returned
C25_Witness ==
  /\ ExtractionRan
  /\ pc = "done"
  /\ ~markdownMatch(content).found
  /\ jsonObjectMatch(content).found
  /\ IsObject(JSONParse(Trim(content)).val)
  /\ result = JSONParse(Trim(content)).val

\* a plan wrapped in a list: the second strategy gives the plan, the third
\* one the list
C25_WitnessDisagree ==
  /\ ExtractionRan
  /\ content = <<"[">> \o ValidPlanText \o <<"]">>
  /\ Cardinality(Parseable(content)) = 2
  /\ pc = "done"

----------------------------------------------------------------------------
(* Properties of the video storage                                         *)

\* call o returned from updateVideoStage(project, id, 'plan', data)
PlanUpdateReturned(o) ==
  /\ vsOps[o].pc = "done"
  /\ vsOps[o].call.fn = "updateVideoStage"
  /\ vsOps[o].call.stage = "plan"
  /\ vsOps[o].call.data # "none"

\* C26 (test 'should update video stage with data'): after
\* updateVideoStage(project, id, 'plan', data) on an existing video the video
\* returned, which is the one written to the storage, has currentStage
\* 'planned', stages.plan.completed true and stages.plan.data equal to data;
\* for an id no video has, it returns null.
C26_StageUpdateResult ==
  \A o \in VideoOps :
    PlanUpdateReturned(o) =>
      LET i == FindIndex(vsOps[o].local.videos, vsOps[o].call.videoId) IN
        IF i = 0 THEN vsOps[o].ret = Null
        ELSE /\ vsOps[o].ret = vsOps[o].local.videos[i]
             /\ vsOps[o].ret.currentStage = "planned"
             /\ vsOps[o].ret.stages["plan"].completed
             /\ vsOps[o].ret.stages["plan"].data = vsOps[o].call.data

\* C36: after any sequence of createVideo, updateVideoStage, setVideoFailed
\* and deleteVideo calls, the currentStage of every stored video is one of
\* the VideoStage values 'idea', 'planned', 'scripted', 'recorded',
\* 'composite', 'failed'.
C36_StageNames ==
  \A i \in 1..Len(vsDisk.videos) : vsDisk.videos[i].currentStage \in VideoStage

\* C37: after any sequence of addContentIdeas calls, with arbitrary
\* batches, no two stored content ideas share a title.
C37_UniqueTitles ==
  \A i, j \in 1..Len(vsDisk.contentIdeas) :
    vsDisk.contentIdeas[i].title = vsDisk.contentIdeas[j].title => i = j

\* every call of the storage functions returned
AllReturned == \A o \in VideoOps : vsOps[o].pc = "done"

\* C38: when storage operations on one project run concurrently with their
\* load and save steps interleaved, all of them take effect: after createVideo
\* calls and no deleteVideo call have completed, the persisted storage holds
\* the video of each createVideo call.
C38_NoLostUpdate ==
  (AllReturned /\ \A o \in VideoOps : vsOps[o].call.fn # "deleteVideo") =>
     \A o \in VideoOps :
       vsOps[o].call.fn = "createVideo" => FindIndex(vsDisk.videos, o) # 0

\* the order of the pipeline's stages
StageOrder == <<"idea", "plan", "script", "record", "composite">>

\* C39: in every stored video reachable through createVideo and
\* updateVideoStage, a stage is marked completed only if every earlier stage
\* of the order idea, plan, script, record, composite is completed.
C39_PipelineOrder ==
  \A i \in 1..Len(vsDisk.videos) :
    \A k \in 1..Len(StageOrder) :
      vsDisk.videos[i].stages[StageOrder[k]].completed =>
        \A h \in 1..(k - 1) : vsDisk.videos[i].stages[StageOrder[h]].completed

----------------------------------------------------------------------------
(* Properties of getModel                                                  *)

\* the variable that holds the model of an agent
AgentVar(agent) ==
  CASE agent = "content-creator" -> "CONTENT_CREATOR_MODEL"
    [] agent = "scriptwriter" -> "SCRIPTWRITER_MODEL"
    [] OTHER -> "PLANNER_MODEL"
\* a variable is set to a text that is not blank
IsSet(var) == gmEnv[var] \notin {EnvUnset, " "}

\* C27: for every agent getModel returns the model of the agent's own
\* variable when that is set, otherwise OPENROUTER_MODEL when that is set,
\* otherwise the agent's default model.
C27_ModelPriority ==
  gmPc = "done" =>
    gmModel = IF IsSet(AgentVar(gmAgent)) THEN gmEnv[AgentVar(gmAgent)]
              ELSE IF IsSet("OPENROUTER_MODEL") THEN gmEnv["OPENROUTER_MODEL"]
              ELSE defaults[gmAgent]

----------------------------------------------------------------------------
(* Properties of the content idea generator                                *)

RECURSIVE TotalIdeas(_)
TotalIdeas(categories) ==
  IF categories = <<>> THEN 0
  ELSE Len(Head(categories).content) + TotalIdeas(Tail(categories))

\* C28: for every analysis result and all options maxIdeas >= 1 and
\* maxCategories >= 1, generateContentIdeas returns at most maxCategories
\* categories, holding at most maxIdeas ideas in total.
C28_IdeaAndCategoryLimits ==
  ciPc = "done" =>
    /\ Len(ciCategories) <= ciOptions.maxCategories
    /\ TotalIdeas(ciCategories) <= ciOptions.maxIdeas

----------------------------------------------------------------------------
(* Properties of the tool round                                            *)

\* the error the automation object rejects with
PortFailure == "automation failed"

\* the automation call made for tool call k of the latest response threw
ThrownAt(k) ==
  \E i \in 1..Len(TurnResults) :
    TurnResults[i] = ErrorMessages(response.toolCalls[k], PortFailure)[1]

\* C29: a capability-port call that throws does not abort the planner: the
\* failure is never the error of the run; the failed call, which names a
\* declared tool, is answered by exactly one message, of role tool, carrying
\* the error message; the step in which the call throws goes on with the
\* remaining tool calls of the turn in emitted order, up to the next
\* capability-port call or, when none is left, to the next model call, which
\* is sent with the history extended by the whole turn.
C29_State ==
  /\ error # PortFailure
  /\ \A k \in 1..Len(response.toolCalls) :
       ThrownAt(k) =>
         /\ ~UnknownCall(response.toolCalls[k])
         /\ Cardinality({i \in 1..Len(TurnResults) : TurnResults[i].call = k}) = 1
         /\ \A i \in 1..Len(TurnResults) :
              TurnResults[i].call = k =>
                /\ IsToolMessage(TurnResults[i])
                /\ Answers(TurnResults[i], response.toolCalls[k])
                /\ TurnResults[i].detail = PortFailure
C29_Step ==
  \A k \in 1..Len(response.toolCalls) :
    (pc = "port" /\ toolIdx = k /\ ThrownAt(k)') =>
      LET withError ==
            PushResults(toolResults, ErrorMessages(response.toolCalls[k], PortFailure))
      IN /\ response' = response
         /\ pc' \in {"port", "chat"}
         /\ pc' = "port" =>
              /\ toolIdx' > k
              /\ IsPrefix(withError, toolResults')
              /\ InOrder(toolResults', response.toolCalls, toolIdx' - 1)
              /\ messages' = messages
              /\ chatCalls' = chatCalls
         /\ pc' = "chat" =>
              /\ messages' = messages \o <<assistantMessage(response)>> \o LastTurn'
              /\ IsPrefix(withError, LastTurn')
              /\ InOrder(LastTurn', response.toolCalls, Len(response.toolCalls))
              /\ request' = LoopRequest(messages')
              /\ chatCalls' = chatCalls + 1
C29_PortFailureAbsorbed == []C29_State /\ [][C29_Step]_vars

\* the second call of a turn of three threw, the third one was executed and
\* the next model call is in flight
C29_Witness ==
  /\ pc = "chat"
  /\ iterationCount = 2
  /\ response.toolCalls = WithIds(<<Screenshot, ListElements, Tap>>)
  /\ ThrownAt(2)
  /\ LastTurn[Len(LastTurn)] = ResultMessages(response.toolCalls[3])[1]
  /\ request = LoopRequest(messages)

\* the messages of msgs that carry a screenshot's image
ImageMessages(msgs) == SelectSeq(msgs, LAMBDA m : m.role = "user" /\ m.kind = "image")
\* the latest response carried tool calls and its turn is in the history
TurnPushed == response.toolCalls # <<>> /\ pc \notin {"port", "config"}
\* turn holds one tool message per call, the i-th answering the i-th call
\* with a result or an error, and besides them only image messages that
\* directly follow the summary message of the same screenshot
OnePerCall(turn, calls) ==
  /\ Len(ToolMessages(turn)) = Len(calls)
  /\ \A i \in 1..Len(calls) :
       /\ Answers(ToolMessages(turn)[i], calls[i])
       /\ ToolMessages(turn)[i].kind \in {"result", "screenshotSummary", "error"}
  /\ \A j \in 1..Len(turn) :
       ~IsToolMessage(turn[j]) =>
         /\ turn[j].role = "user" /\ turn[j].kind = "image"
         /\ j > 1
         /\ IsToolMessage(turn[j - 1])
         /\ turn[j - 1].kind = "screenshotSummary"
         /\ turn[j - 1].call = turn[j].call

\* C30: for every assistant turn carrying k >= 1 tool calls, the messages
\* appended after the turn's assistant message hold exactly k tool messages,
\* the i-th answering the i-th tool call whether it succeeded or failed, and
\* otherwise only the image messages that directly follow a screenshot's
\* tool message; the turn is appended in one step, and no other step adds a
\* tool message or an image message to the history.
C30_State ==
  TurnPushed =>
    /\ LastAssistant > 0
    /\ messages[LastAssistant] = assistantMessage(response)
    /\ OnePerCall(LastTurn, response.toolCalls)
C30_Step ==
  IF messages' # messages /\ response'.toolCalls # <<>>
    THEN /\ messages' = messages \o <<assistantMessage(response')>> \o LastTurn'
         /\ Len(ToolMessages(messages')) =
              Len(ToolMessages(messages)) + Len(response'.toolCalls)
    ELSE /\ Len(ToolMessages(messages')) = Len(ToolMessages(messages))
         /\ Len(ImageMessages(messages')) = Len(ImageMessages(messages))
C30_OneToolMessagePerCall == []C30_State /\ [][C30_Step]_vars

\* a turn of three calls whose second call failed: three tool messages and
\* the screenshot's image message were appended
C30_Witness ==
  /\ TurnPushed
  /\ response.toolCalls = WithIds(<<Tap, Bogus, Screenshot>>)
  /\ Len(LastTurn) = 4
  /\ LastTurn[2].kind = "error"
  /\ LastTurn[3].kind = "screenshotSummary"
  /\ LastTurn[4].kind = "image"

----------------------------------------------------------------------------
(* Properties of the end of a planner run                                  *)

\* the methods of the automation object that reset the simulator
LifecycleMethods == {"terminateAllApps", "pressButton"}

\* C31: terminateAllApps and pressButton are never invoked in a run that
\* ends by throwing, and never before the plan passed validation: a rejected
\* run made no lifecycle call; no lifecycle call was made while the run is
\* still configuring, awaiting the model or executing tools; no tool call
\* reaches a lifecycle method; the step that makes the first lifecycle call
\* has parsed and validated the plan, and no step after a lifecycle call
\* rejects the run.
C31_State ==
  /\ (pc = "failed" \/ error # "none") => (lifecycle = <<>> /\ ~cleanupFailed)
  /\ pc \in {"config", "chat", "port", "followup"} => lifecycle = <<>>
  /\ portCall.method \notin LifecycleMethods
C31_Step ==
  /\ lifecycle' # lifecycle =>
       /\ PlanCheck(content') = "ok"
       /\ plan' = JSONParse(jsonStr(content')).val
       /\ pc' \in {"terminate", "press"}
  /\ lifecycle # <<>> => (pc' # "failed" /\ error' = "none")
C31_CleanupOnlyOnSuccess == []C31_State /\ [][C31_Step]_vars

\* a run that executed tools and was rejected by the validation gate at the
\* last iteration, without any lifecycle call
C31_Witness ==
  /\ pc = "failed"
  /\ error = EmptyStepsError
  /\ followUps = 0
  /\ portCall # NoPortCall
  /\ lifecycle = <<>>

\* C32: a response that carries tool calls is handled as a tool-call turn,
\* whatever text it carries: while it is the latest response no plan
\* extraction was attempted (no content extracted, no plan, no follow-up, no
\* lifecycle call), the run is executing its tools, awaiting the next model
\* call or was rejected by the budget or the transport; once the turn is
\* pushed, its text is the content of the turn's assistant message and of no
\* other message; the step that receives it dispatches the first tool call
\* or makes the next model call.  Extraction happens only for a response
\* without tool calls.
C32_State ==
  /\ response.toolCalls # <<>> =>
       /\ content = <<>> /\ plan = NoPlan /\ result = NoPlan
       /\ followUps = 0 /\ lifecycle = <<>>
       /\ pc \in {"port", "chat", "failed"}
       /\ pc = "failed" => error \in TransportErrors \cup {MaxIterationsError}
       /\ pc # "port" =>
            /\ messages[LastAssistant] = assistantMessage(response)
            /\ messages[LastAssistant].text = response.content
            /\ \A i \in 1..Len(LastTurn) : LastTurn[i].text = <<>>
  /\ (ExtractionRan \/ followUps > 0 \/ content # <<>>) => response.toolCalls = <<>>
C32_Step ==
  (pc = "chat" /\ response'.toolCalls # <<>> /\ error' \notin TransportErrors) =>
    /\ content' = content /\ plan' = plan /\ followUps' = followUps
    /\ \/ /\ pc' = "port"
          /\ toolIdx' \in 1..Len(response'.toolCalls)
          /\ portCall' = AutomationCall(response'.toolCalls[toolIdx'])
          /\ messages' = messages
       \/ /\ messages' = messages \o <<assistantMessage(response')>> \o LastTurn'
          /\ \/ pc' = "chat" /\ chatCalls' = chatCalls + 1
             \/ pc' = "failed" /\ error' = MaxIterationsError
C32_ToolCallsFirst == []C32_State /\ [][C32_Step]_vars

\* a response carried a whole plan as text together with a tool call: the
\* tool was executed and the next model call is in flight
C32_Witness ==
  /\ pc = "chat"
  /\ iterationCount = 2
  /\ response.content = ValidPlanText
  /\ response.toolCalls # <<>>
  /\ messages[LastAssistant].text = ValidPlanText
  /\ Len(ToolMessages(LastTurn)) = 1

UnexpectedResponseError == "Unexpected response format from OpenRouter"

\* C33: a response with no tool calls and no content is terminal: the step
\* that receives it rejects the run with the unexpected-response error in
\* the same iteration, makes no chatCompletion call and appends nothing to
\* the history; a run rejected with that error returned nothing, made no
\* follow-up and no lifecycle call, has nothing in flight, and takes no
\* further step.
C33_State ==
  error = UnexpectedResponseError =>
    /\ pc = "failed"
    /\ response = NoResponse
    /\ result = NoPlan /\ plan = NoPlan /\ content = <<>>
    /\ followUps = 0 /\ lifecycle = <<>>
    /\ chatCalls = iterationCount
    /\ inFlight = NoneInFlight
C33_Step ==
  /\ (pc = "chat" /\ response' = NoResponse /\ error' \notin TransportErrors) =>
       /\ pc' = "failed"
       /\ error' = UnexpectedResponseError
       /\ messages' = messages
       /\ iterationCount' = iterationCount
       /\ chatCalls' = chatCalls
       /\ request' = request
       /\ followUps' = followUps
  /\ error # UnexpectedResponseError
C33_EmptyResponseTerminal == []C33_State /\ [][C33_Step]_vars

\* the second response of a run was empty: the history holds the prompt and
\* the first tool round, and nothing of the empty response
C33_Witness ==
  /\ pc = "failed"
  /\ error = UnexpectedResponseError
  /\ iterationCount = 2
  /\ chatCalls = 2
  /\ IsToolMessage(messages[Len(messages)]) \/ messages[Len(messages)].kind = "image"

\* the follow-up call was made and resolved
FollowUpAnswered == followUps = 1 /\ pc # "followup" /\ error \notin TransportErrors
\* the error the extraction ends in for a text, "none" when it runs through
ExtractionError(t) ==
  CASE PlanCheck(t) = "parse" -> "JSON parse error"
    [] PlanCheck(t) = "type" -> "TypeError"
    [] PlanCheck(t) = "empty" -> EmptyStepsError
    [] OTHER -> "none"

\* C34: once the follow-up call has resolved, the plan is extracted from
\* the follow-up response's content alone: the extracted content is that
\* content, the run's error or plan is the one the extraction yields for it
\* (whatever the original final text would have yielded), an empty
\* follow-up content rejects the run with the parse error, and the tool
\* calls of the follow-up response are not dispatched: the step that
\* receives it makes no automation call for a tool, appends nothing to the
\* history and makes no chatCompletion call.
C34_State ==
  /\ FollowUpAnswered =>
       /\ content = jsonResponse.content
       /\ error = ExtractionError(jsonResponse.content)
       /\ error = "none" =>
            (pc \in Plans /\ plan = JSONParse(jsonStr(jsonResponse.content)).val)
       /\ error # "none" => (pc = "failed" /\ plan = NoPlan)
       /\ jsonResponse.content = <<>> => (pc = "failed" /\ error = "JSON parse error")
       /\ messages[Len(messages)] = JsonRequestMessage
       /\ messages[Len(messages) - 1] = assistantMessage(response)
  /\ ~FollowUpAnswered => jsonResponse = NoResponse
C34_Step ==
  (pc = "followup" /\ error' \notin TransportErrors) =>
    /\ messages' = messages
    /\ portCall' = portCall
    /\ toolIdx' = toolIdx /\ toolResults' = toolResults
    /\ chatCalls' = chatCalls /\ iterationCount' = iterationCount
    /\ request' = request
    /\ pc' \in {"failed", "terminate"}
C34_FollowUpReplaces == []C34_State /\ [][C34_Step]_vars

\* the original final text held a fenced plan that would have passed, the
\* follow-up answer was empty and carried a tool call: the run was rejected
\* with the parse error and the tool was not called
C34_Witness ==
  /\ FollowUpAnswered
  /\ PlanCheck(response.content) = "ok"
  /\ jsonResponse.content = <<>>
  /\ jsonResponse.toolCalls # <<>>
  /\ pc = "failed"
  /\ error = "JSON parse error"
  /\ portCall = NoPortCall

----------------------------------------------------------------------------
(* Properties of generateScript's error reporting                          *)

\* the chat request of generateScript was cut off by the client's timer:
\* the catch block caught what chatCompletion rejects with in that case
ScriptTimedOut == swPc = "failed" /\ swCaught.message = TimeoutError.message[1]

\* C35: when the chat request made by generateScript is cut off by the
\* client's 120 s timeout, generateScript rejects with the enhanced error
\* named 'ScriptGenerationAbortError', whose message lists the
\* request-timeout cause.
C35_TimeoutEnhanced ==
  ScriptTimedOut =>
    /\ swErrorName = "ScriptGenerationAbortError"
    /\ swError = "Script generation was aborted"

====
